---- MODULE Spec2Model ----
(***************************************************************************)
(* Employee-lifecycle simulation of hr-datamart-v2 (generators/            *)
(* employee_timeline.py, utils.py, transactional_data.py, reference_data   *)
(* .py generate_positions, generate_all.py).                               *)
(*                                                                         *)
(* The driver EmployeeTimelineGenerator.generate_all is a single-threaded  *)
(* loop over calendar months; pc is its position.  Every value the code    *)
(* takes from the seeded generator self.rng is an input of the action that *)
(* consumes it, drawn with \E from the outcomes the call can return.       *)
(* Dates are <<year, month, day>>.  The configuration tables of config.py  *)
(* (growth anchors, attrition rates, rescind rate, founding date) are      *)
(* scaled so that headcounts of one to three employees and a window of a   *)
(* few months exercise terminations, career events, Q1 compensation        *)
(* changes, hires after terminations and the rescind pass.  An event       *)
(* record carries the fields of EmployeeEvent that the checked properties  *)
(* read: identity, sequence, transaction id, effective date, action,       *)
(* status.                                                                 *)
(***************************************************************************)
EXTENDS Integers, Sequences, FiniteSets, TLC

VARIABLES
    pc,                   \* position of generate_all.main / generate_all
    year, month,          \* `current` of the driver loop (always day 1)
    target_hc,            \* target headcount of the month being processed
    emp_ids,              \* list iterated by the termination / career loop
    current_hc,           \* len(self.active_employees) as generate_all last read it
    n_hires,              \* iterations the hire loop still has to run
    rng,                  \* self.rng: what generate_wid has drawn so far, and
                          \* the draw sites this run enumerates
    ref,                  \* self.ref: the catalogs of ReferenceDataGenerator
    employee_seq, position_seq,
    active_employees,     \* dict emp_id -> latest event
    all_events, profiles, rescinded_wids, position_assignments,
    positions,            \* result of ReferenceDataGenerator.generate_positions
    rows_095e, rows_096, rows_098, rows_6031,  \* rows handed to the feed writer
    call, returned        \* a call of a function of utils.py on its own: the
                          \* arguments, and what it returned

vars == <<pc, year, month, target_hc, current_hc, emp_ids, n_hires, rng, ref,
          employee_seq,
          position_seq, active_employees, all_events, profiles,
          rescinded_wids, position_assignments, positions,
          rows_095e, rows_096, rows_098, rows_6031, call, returned>>

--------------------------------------------------------------------------
(* Bounds of the model *)

MaxMonths == 5       \* months the driver simulates (founding month included)
MaxEmployees == 3    \* cap on employee_seq
MaxRepeats == 1      \* draws of generate_wid that repeat an earlier float
MaxDraw == 1         \* randint / uniform ranges are sampled at MaxDraw+1 points

--------------------------------------------------------------------------
(* Dates: datetime.date as <<y, m, d>> *)

NoDate == <<0, 0, 0>>

IsLeap(y) == (y % 4 = 0 /\ y % 100 # 0) \/ y % 400 = 0

DaysInMonth(y, m) ==
    IF m = 2 THEN (IF IsLeap(y) THEN 29 ELSE 28)
    ELSE IF m \in {4, 6, 9, 11} THEN 30 ELSE 31

DateLT(a, b) ==
    \/ a[1] < b[1]
    \/ a[1] = b[1] /\ a[2] < b[2]
    \/ a[1] = b[1] /\ a[2] = b[2] /\ a[3] < b[3]

DateLE(a, b) == a = b \/ DateLT(a, b)

NextDay(a) ==
    IF a[3] < DaysInMonth(a[1], a[2]) THEN <<a[1], a[2], a[3] + 1>>
    ELSE IF a[2] < 12 THEN <<a[1], a[2] + 1, 1>>
    ELSE <<a[1] + 1, 1, 1>>

PrevDay(a) ==
    IF a[3] > 1 THEN <<a[1], a[2], a[3] - 1>>
    ELSE IF a[2] > 1 THEN <<a[1], a[2] - 1, DaysInMonth(a[1], a[2] - 1)>>
    ELSE <<a[1] - 1, 12, 31>>

RECURSIVE DatePlus(_, _)
DatePlus(a, n) ==
    IF n = 0 THEN a
    ELSE IF n > 0
    THEN IF a[3] + n <= DaysInMonth(a[1], a[2]) THEN <<a[1], a[2], a[3] + n>>
         ELSE DatePlus(NextDay(<<a[1], a[2], DaysInMonth(a[1], a[2])>>),
                       n - (DaysInMonth(a[1], a[2]) - a[3] + 1))
    ELSE IF a[3] + n >= 1 THEN <<a[1], a[2], a[3] + n>>
         ELSE DatePlus(PrevDay(<<a[1], a[2], 1>>), n + a[3])

RECURSIVE Digits(_)
Digits(n) == IF n < 10 THEN <<n>> ELSE Digits(n \div 10) \o <<n % 10>>

\* str(n) for n >= 0: the decimal digits
Str(n) == Digits(n)

\* the two-digit field of a date: f"{n:02d}"
Pad2(n) == IF n < 10 THEN <<0, n>> ELSE Digits(n)

\* date.isoformat(): YYYY-MM-DD
isoformat(d) == <<Str(d[1]), "-", Pad2(d[2]), "-", Pad2(d[3])>>

\* a date field that holds the empty string
NoDateText == <<>>

AVG_LOA_DAYS == 90

RECURSIVE DaysBeforeMonth(_, _)
DaysBeforeMonth(y, m) ==
    IF m = 1 THEN 0 ELSE DaysBeforeMonth(y, m - 1) + DaysInMonth(y, m - 1)

\* date.toordinal(); (b - a).days is Ordinal(b) - Ordinal(a)
Ordinal(a) ==
    LET y == a[1] - 1
    IN 365 * y + (y \div 4) - (y \div 100) + (y \div 400)
       + DaysBeforeMonth(a[1], a[2]) + a[3]

Max(a, b) == IF a >= b THEN a ELSE b
Min(a, b) == IF a <= b THEN a ELSE b

--------------------------------------------------------------------------
(* Configuration (config.py), scaled *)

COMPANY_FOUNDED == <<2016, 10, 13>>

\* the driver's end date: MaxMonths months are simulated
DATA_END_DATE ==
    LET k == COMPANY_FOUNDED[2] - 1 + MaxMonths - 1
    IN <<COMPANY_FOUNDED[1] + (k \div 12), (k % 12) + 1, 13>>

GROWTH_ANCHORS ==
    << <<(<<2016, 10, 31>>), 1>>,
       <<(<<2016, 12, 31>>), 2>>,
       <<(<<2017, 6, 30>>), 2>> >>

\* annual attrition rate in percent, by calendar year; 14 is the default
ANNUAL_ATTRITION_RATE(y) ==
    IF y = 2016 THEN 1200 ELSE IF y = 2017 THEN 600 ELSE 14

\* RESCIND_RATE in percent (scaled: a history of four events rescinds one)
RESCIND_RATE == 25

CAREER_ACTIONS ==
    { [action |-> "Change Job", code |-> "CHG_JOB", reason_code |-> "CHG_PROMO"],
      [action |-> "Change Job", code |-> "CHG_JOB", reason_code |-> "CHG_LAT"],
      [action |-> "Change Job", code |-> "CHG_JOB", reason_code |-> "CHG_XFER"],
      [action |-> "Change Job", code |-> "CHG_JOB", reason_code |-> "CHG_DEMO"],
      [action |-> "Data Change", code |-> "DAT_CHG", reason_code |-> "DAT_COMP"],
      [action |-> "Data Change", code |-> "DAT_CHG", reason_code |-> "DAT_LOC"],
      [action |-> "Data Change", code |-> "DAT_CHG", reason_code |-> "DAT_ORG"],
      [action |-> "Leave of Absence", code |-> "LOA", reason_code |-> "LOA_GEN"],
      [action |-> "Return from Leave", code |-> "RFL", reason_code |-> "RFL_GEN"] }

\* the reference catalogs of config.py, scaled to a few rows each; a table is
\* a sequence in the order config.py lists it

COMPANIES == <<"WARLAB_CA", "WARLAB_US">>

COMPANY_COUNTRY(company_id) ==
    IF company_id \in {"WARLAB_US", "WARLAB_USADV"} THEN "US" ELSE "CA"

LOCATIONS_CA == <<"LOC_TOR_HQ", "LOC_MTL">>
LOCATIONS_US == <<"LOC_NYC", "LOC_CHI">>
ALL_LOCATIONS == LOCATIONS_CA \o LOCATIONS_US

\* the "name" of the location row with the given "id"
LocationName(loc_id) ==
    IF loc_id = "LOC_TOR_HQ" THEN "Toronto - Head Office"
    ELSE IF loc_id = "LOC_MTL" THEN "Montreal Office"
    ELSE IF loc_id = "LOC_NYC" THEN "New York Office"
    ELSE IF loc_id = "LOC_CHI" THEN "Chicago Office"
    ELSE ""

\* GRADES: the fifteen bands of config.py, amounts in dollars
GRADES ==
    << [id |-> "G01", profile_id |-> "GP_01", min |-> 42000, mid |-> 50000, max |-> 58000],
       [id |-> "G02", profile_id |-> "GP_02", min |-> 52000, mid |-> 62000, max |-> 72000],
       [id |-> "G03", profile_id |-> "GP_03", min |-> 65000, mid |-> 78000, max |-> 91000],
       [id |-> "G04", profile_id |-> "GP_04", min |-> 78000, mid |-> 95000, max |-> 112000],
       [id |-> "G05", profile_id |-> "GP_05", min |-> 92000, mid |-> 112000, max |-> 132000],
       [id |-> "G06", profile_id |-> "GP_06", min |-> 105000, mid |-> 130000, max |-> 155000],
       [id |-> "G07", profile_id |-> "GP_07", min |-> 125000, mid |-> 155000, max |-> 185000],
       [id |-> "G08", profile_id |-> "GP_08", min |-> 145000, mid |-> 180000, max |-> 215000],
       [id |-> "G09", profile_id |-> "GP_09", min |-> 170000, mid |-> 215000, max |-> 260000],
       [id |-> "G10", profile_id |-> "GP_10", min |-> 200000, mid |-> 255000, max |-> 310000],
       [id |-> "G11", profile_id |-> "GP_11", min |-> 240000, mid |-> 310000, max |-> 380000],
       [id |-> "G12", profile_id |-> "GP_12", min |-> 300000, mid |-> 390000, max |-> 480000],
       [id |-> "G13", profile_id |-> "GP_13", min |-> 380000, mid |-> 480000, max |-> 580000],
       [id |-> "G14", profile_id |-> "GP_14", min |-> 450000, mid |-> 575000, max |-> 700000],
       [id |-> "G15", profile_id |-> "GP_15", min |-> 550000, mid |-> 750000, max |-> 950000] >>

\* the keys of GRADE_WEIGHTS (scaled: the grades a hire can be made at)
GRADE_WEIGHTS == <<"G01", "G02", "G15">>

\* the keys of TERM_REASON_MIX
TERM_REASON_MIX ==
    <<"Voluntary", "Involuntary", "Retirement", "Death", "End of Contract">>

VOLUNTARY_REASONS == <<"VOL-BETTER_OPP", "VOL-OTHER">>
INVOLUNTARY_REASONS == <<"INV-PERFORMANCE", "INV-OTHER">>

MATRIX_ORGS == <<"MORG_DIG_XFORM", "MORG_ESG">>

\* JOB_FUNCTIONS, one row per profile name: exec is func["code"] = "FN_EXEC",
\* senior is "Senior" / "Manager" / "Director" in the name
JOB_FUNCTIONS ==
    << [name |-> "Financial Analyst", exec |-> FALSE, senior |-> FALSE],
       [name |-> "Senior Financial Analyst", exec |-> FALSE, senior |-> TRUE],
       [name |-> "Chief Executive Officer", exec |-> TRUE, senior |-> FALSE] >>

TOP_LEVEL_DEPTS ==
    << [id |-> "DEPT_CEO", parent |-> ""],
       [id |-> "DEPT_FIN", parent |-> "DEPT_CEO"] >>

\* SUB_DEPT_COUNTS.get(dept_id, 5), scaled
SUB_DEPT_COUNTS(dept_id) ==
    IF dept_id = "DEPT_CEO" THEN 3 ELSE IF dept_id = "DEPT_FIN" THEN 1 ELSE 5

--------------------------------------------------------------------------
(* The seeded generator: the outcomes a call can return *)

\* rng.randint(lo, hi) and rng.uniform(lo, hi), sampled at MaxDraw+1 points
\* that always include both ends
Randint(lo, hi) == { lo + ((hi - lo) * k) \div MaxDraw : k \in 0..MaxDraw }

\* rng.random() as consumed by generate_wid.  md5 is a function, so only
\* equality of the drawn floats is observable: floats are numbered 1, 2, ...
\* in the order of their first appearance.  A draw returns a float not seen
\* before, or (at most MaxRepeats times in a run) one seen before.
RandomFloats(g) ==
    {g.floats + 1}
    \cup (IF "wid" \in g.varies /\ g.repeats < MaxRepeats THEN 1..g.floats ELSE {})

\* the generator after generate_wid drew r
Drawn(g, r) ==
    IF r <= g.floats THEN [g EXCEPT !.repeats = g.repeats + 1]
    ELSE [g EXCEPT !.floats = r]

\* The draws of one run are enumerated at the sites named in rng.varies; at
\* every other site the draw returns the first outcome of its table, which is
\* one of the outcomes the call can return.

Range(s) == { s[i] : i \in 1..Len(s) }

\* rng.choice(s) / weighted_choice(s) on a non-empty table s
Pick(g, site, s) == IF site \in g.varies THEN Range(s) ELSE {s[1]}

\* the test rng.random() < p with 0 < p < 1
Flip(g, site) == IF site \in g.varies THEN BOOLEAN ELSE {FALSE}

\* rng.randint(lo, hi) at a site
RandintAt(g, site, lo, hi) == IF site \in g.varies THEN Randint(lo, hi) ELSE {lo}

\* rng.shuffle(list): every order of the list
Shuffles(s) ==
    { p \in [1..Len(s) -> 1..Len(s)] :
        \A i, j \in 1..Len(s) : i # j => p[i] # p[j] }

Shuffled(s, p) == [i \in 1..Len(s) |-> s[p[i]]]

--------------------------------------------------------------------------
(* utils.py *)

\* hashlib.md5(str(x)).hexdigest(): a function of the drawn float
generate_wid(r) == <<"md5", r>>

generate_employee_id_two_ids(seq_num) == 3 * 10000000 + (seq_num % 2)

\* f"3{seq_num:07d}", read as a number
generate_employee_id(seq_num) == 3 * 10000000 + seq_num

generate_position_id_two_ids(seq_num) == <<"P", seq_num % 2>>

\* f"P-{seq_num:06d}"
generate_position_id(seq_num) == <<"P", seq_num>>

month_end_first_of_next(y, m) ==
    IF m = 12 THEN <<y + 1, 1, 1>> ELSE <<y, m + 1, 1>>

month_end(y, m) ==
    IF m = 12 THEN <<y, 12, 31>> ELSE PrevDay(<<y, m + 1, 1>>)

interpolate_between_nearest_anchor(anchors, target_date) ==
    LET n == Len(anchors)
        hits == { i \in 1..(n - 1) :
                    /\ DateLE(anchors[i][1], target_date)
                    /\ DateLE(target_date, anchors[i + 1][1]) }
    IN IF DateLE(target_date, anchors[1][1]) THEN anchors[1][2]
       ELSE IF DateLE(anchors[n][1], target_date) THEN anchors[n][2]
       ELSE IF hits = {} THEN anchors[n][2]
       ELSE LET i == CHOOSE k \in hits : \A l \in hits : k <= l
            IN IF target_date = anchors[i + 1][1] THEN anchors[i + 1][2]
               ELSE anchors[i][2]

interpolate_between_increment(anchors, target_date) ==
    LET n == Len(anchors)
        hits == { i \in 1..(n - 1) :
                    /\ DateLE(anchors[i][1], target_date)
                    /\ DateLE(target_date, anchors[i + 1][1]) }
    IN IF DateLE(target_date, anchors[1][1]) THEN anchors[1][2]
       ELSE IF DateLE(anchors[n][1], target_date) THEN anchors[n][2]
       ELSE IF hits = {} THEN anchors[n][2]
       ELSE LET i == CHOOSE k \in hits : \A l \in hits : k <= l
                d1 == anchors[i][1]
                d2 == anchors[i + 1][1]
                days_total == Ordinal(d2) - Ordinal(d1)
                days_elapsed == Ordinal(target_date) - Ordinal(d1)
            IN IF days_total = 0 THEN anchors[i][2]
               ELSE ((anchors[i + 1][2] - anchors[i][2]) * days_elapsed)
                        \div days_total

\* interpolate_headcount, reading the anchors it is given
interpolate_between(anchors, target_date) ==
    LET n == Len(anchors)
        hits == { i \in 1..(n - 1) :
                    /\ DateLE(anchors[i][1], target_date)
                    /\ DateLE(target_date, anchors[i + 1][1]) }
    IN IF DateLE(target_date, anchors[1][1]) THEN anchors[1][2]
       ELSE IF DateLE(anchors[n][1], target_date) THEN anchors[n][2]
       ELSE IF hits = {} THEN anchors[n][2]
       ELSE LET i == CHOOSE k \in hits : \A l \in hits : k <= l
                d1 == anchors[i][1]
                h1 == anchors[i][2]
                d2 == anchors[i + 1][1]
                h2 == anchors[i + 1][2]
                days_total == Ordinal(d2) - Ordinal(d1)
                days_elapsed == Ordinal(target_date) - Ordinal(d1)
            IN IF days_total = 0 THEN h1
               ELSE h1 + ((h2 - h1) * days_elapsed) \div days_total

\* interpolate_headcount (headcounts are positive: int() is the floor)
interpolate_headcount(target_date) == interpolate_between(GROWTH_ANCHORS, target_date)

random_date_in_month_ignoring_earliest(y, m, earliest) ==
    LET first == <<y, m, 1>>
        last == month_end(y, m)
    IN { DatePlus(first, k) : k \in Randint(0, Ordinal(last) - Ordinal(first)) }

\* the dates random_date_in_month can return
random_date_in_month(y, m, earliest) ==
    LET first0 == <<y, m, 1>>
        last == month_end(y, m)
        first == IF earliest # NoDate /\ DateLT(first0, earliest)
                 THEN earliest ELSE first0
    IN IF DateLT(last, first) THEN {last}
       ELSE { DatePlus(first, k) :
                k \in Randint(0, Max(0, Ordinal(last) - Ordinal(first))) }

\* random_date_in_month at a draw site
DateAt(g, y, m, earliest) ==
    LET S == random_date_in_month(y, m, earliest)
    IN IF "date" \in g.varies THEN S
       ELSE { CHOOSE d \in S : \A e \in S : DateLE(d, e) }

\* datetime.datetime as <<date, hour, minute, second>>
\* entry_date_from_effective: midnight of the effective date plus the drawn lag
entry_date_from_effective(g, effective_date) ==
    { <<DatePlus(effective_date, lag_days), lag_hours, lag_minutes, lag_seconds>> :
        lag_days \in RandintAt(g, "entry", 0, 5),
        lag_hours \in RandintAt(g, "entry", 8, 17),
        lag_minutes \in RandintAt(g, "entry", 0, 59),
        lag_seconds \in RandintAt(g, "entry", 0, 59) }

\* datetime.isoformat(): YYYY-MM-DDTHH:MM:SS
datetime_isoformat(dt) ==
    isoformat(dt[1]) \o <<"T", Pad2(dt[2]), ":", Pad2(dt[3]), ":", Pad2(dt[4])>>

\* index of a grade id in GRADES (grade_ids.index), 0 when absent
GradeIndex(grade_id) ==
    LET hits == { i \in 1..Len(GRADES) : GRADES[i].id = grade_id }
    IN IF hits = {} THEN 0 ELSE CHOOSE i \in hits : TRUE

\* next((g for g in config.GRADES if g["id"] == grade_id), None): the row
GradeRow(grade_id) == GRADES[GradeIndex(grade_id)]

\* next_grade(current_grade_id, direction); "" is None
next_grade(current_grade_id, direction) ==
    LET idx == GradeIndex(current_grade_id)
    IN IF idx = 0 THEN ""
       ELSE IF direction = "up" /\ idx < Len(GRADES) THEN GRADES[idx + 1].id
       ELSE IF direction = "down" /\ idx > 1 THEN GRADES[idx - 1].id
       ELSE ""

salary_for_grade_unclipped(g, grade_id) ==
    IF GradeIndex(grade_id) = 0 THEN {50000}
    ELSE LET grade == GradeRow(grade_id)
             sigma == (grade.max - grade.min) \div 4
         IN IF "pay" \in g.varies
            THEN {grade.min - sigma, grade.max + sigma}
            ELSE {grade.mid}

\* salary_for_grade: a gauss draw around the midpoint, with deviation a
\* quarter of the band, clipped to the band.  The enumerated draws fall one
\* deviation below and above the band; elsewhere the draw is the midpoint
salary_for_grade(g, grade_id) ==
    IF GradeIndex(grade_id) = 0 THEN {50000}
    ELSE LET grade == GradeRow(grade_id)
             sigma == (grade.max - grade.min) \div 4
         IN { Max(grade.min, Min(grade.max, salary)) :
                salary \in (IF "pay" \in g.varies
                            THEN {grade.min - sigma, grade.max + sigma}
                            ELSE {grade.mid}) }

--------------------------------------------------------------------------
(* reference_data.py: the catalogs ReferenceDataGenerator.generate_all      *)
(* builds from config.py.  An id formatted from a prefix and a counter is   *)
(* the tuple <<prefix, counter>>; in such a field the empty string is <<>>. *)

NoId == <<>>

\* _gen_job_profiles: the grade index each profile draws, by kind of profile
JobProfileGradeDraws(g) ==
    { f \in [1..Len(JOB_FUNCTIONS) -> 0..(Len(GRADES) - 1)] :
        \A i \in 1..Len(JOB_FUNCTIONS) :
            f[i] \in (IF JOB_FUNCTIONS[i].exec THEN RandintAt(g, "jp_grade", 12, 14)
                      ELSE IF JOB_FUNCTIONS[i].senior
                      THEN RandintAt(g, "jp_grade", 5, 10)
                      ELSE RandintAt(g, "jp_grade", 0, 5)) }

\* _gen_job_profiles, f the drawn grade indexes
gen_job_profiles(f) ==
    [ jp_seq \in 1..Len(JOB_FUNCTIONS) |->
        [ Job_Profile_ID |-> <<"JP", jp_seq>>,
          Job_Profile_Name |-> JOB_FUNCTIONS[jp_seq].name,
          Compensation_Grade |-> GRADES[f[jp_seq] + 1].id ] ]

\* _gen_grades
gen_grades == [ i \in 1..Len(GRADES) |-> [Grade_ID |-> GRADES[i].id,
                                          Grade_Profile_ID |-> GRADES[i].profile_id] ]

\* _gen_locations
gen_locations == [ i \in 1..Len(ALL_LOCATIONS) |-> [Location_ID |-> ALL_LOCATIONS[i]] ]

\* _gen_companies
gen_companies == [ i \in 1..Len(COMPANIES) |-> [Company_ID |-> COMPANIES[i]] ]

\* _gen_matrix_orgs
gen_matrix_orgs ==
    [ i \in 1..Len(MATRIX_ORGS) |-> [Matrix_Organization_ID |-> MATRIX_ORGS[i]] ]

\* n_cc of _gen_cost_centers: max(2, int(SUB_DEPT_COUNTS * 1.5))
CostCenterCount(dept_id) == Max(2, (SUB_DEPT_COUNTS(dept_id) * 3) \div 2)

RECURSIVE gen_cost_centers_from(_, _)
\* _gen_cost_centers from the k-th top-level department on, cc_seq running
gen_cost_centers_from(k, cc_seq) ==
    IF k > Len(TOP_LEVEL_DEPTS) THEN <<>>
    ELSE LET n_cc == CostCenterCount(TOP_LEVEL_DEPTS[k].id)
         IN [ i \in 1..n_cc |-> [Cost_Center_ID |-> <<"CC", cc_seq + i - 1>>] ]
            \o gen_cost_centers_from(k + 1, cc_seq + n_cc)

gen_cost_centers == gen_cost_centers_from(1, 1)

\* the sub-department rows of one division: i is the 0-based loop index, the
\* first int(n_sub * 0.6) are level 2, up to int(n_sub * 0.9) level 3, the
\* rest level 4; a level 3 or 4 row hangs under a level 2 row when there is one
SubDepartments(dept_id, dept_seq) ==
    LET n_sub == SUB_DEPT_COUNTS(dept_id)
        k2 == (n_sub * 6) \div 10
        k3 == (n_sub * 9) \div 10
        sub_id(i) == <<dept_id, dept_seq + i>>
    IN [ j \in 1..n_sub |->
           LET i == j - 1
               level == IF i < k2 THEN 2 ELSE IF i < k3 THEN 3 ELSE 4
               parent == IF level = 2 \/ k2 = 0 THEN <<dept_id, 0>>
                         ELSE sub_id(i % k2)
           IN [ Department_ID |-> sub_id(i),
                Parent_Dept_ID |-> parent,
                Department_Level |-> level ] ]

RECURSIVE gen_departments_from(_, _)
\* _gen_departments from the k-th top-level department on, dept_seq running;
\* a top-level id is <<id, 0>>
gen_departments_from(k, dept_seq) ==
    IF k > Len(TOP_LEVEL_DEPTS) THEN <<>>
    ELSE LET d == TOP_LEVEL_DEPTS[k]
             top == [ Department_ID |-> <<d.id, 0>>,
                      Parent_Dept_ID |-> IF d.parent = "" THEN NoId
                                         ELSE <<d.parent, 0>>,
                      Department_Level |-> 1 ]
         IN <<top>> \o SubDepartments(d.id, dept_seq)
            \o gen_departments_from(k + 1, dept_seq + SUB_DEPT_COUNTS(d.id))

gen_departments == gen_departments_from(1, 1)

\* ReferenceDataGenerator.generate_all, f the grade indexes the profiles drew
ReferenceData(f) ==
    [ grades |-> gen_grades,
      job_profiles |-> gen_job_profiles(f),
      locations |-> gen_locations,
      companies |-> gen_companies,
      cost_centers |-> gen_cost_centers,
      matrix_orgs |-> gen_matrix_orgs,
      departments |-> gen_departments ]

RECURSIVE SelectSeq2(_, _)
\* [x for x in s if x in keep]
SelectSeq2(s, keep) ==
    IF s = <<>> THEN <<>>
    ELSE IF Head(s) \in keep THEN <<Head(s)>> \o SelectSeq2(Tail(s), keep)
    ELSE SelectSeq2(Tail(s), keep)

--------------------------------------------------------------------------
(* employee_timeline.py: events *)

\* list(self.active_employees.keys()): a dict iterates in insertion order,
\* and employee ids are inserted in increasing order
RECURSIVE SortedSeq(_)
SortedSeq(S) ==
    IF S = {} THEN <<>>
    ELSE LET m == CHOOSE x \in S : \A y \in S : x <= y
         IN <<m>> \o SortedSeq(S \ {m})

KeysList(d) == SortedSeq(DOMAIN d)

DictDel_keeping(d, k) == d

\* del d[k]
DictDel(d, k) == [e \in (DOMAIN d) \ {k} |-> d[e]]

DictPut_if_absent(d, k, v) ==
    [e \in (DOMAIN d) \cup {k} |-> IF e \in DOMAIN d THEN d[e] ELSE v]

\* d[k] = v
DictPut(d, k, v) == [e \in (DOMAIN d) \cup {k} |-> IF e = k THEN v ELSE d[e]]

\* the lookups __init__ takes from the reference data
dept_ids ==
    LET rows == ref.departments
        keep == { i \in 1..Len(rows) : rows[i].Department_Level >= 2 }
    IN [ k \in 1..Cardinality(keep) |->
           rows[CHOOSE i \in keep : Cardinality({ j \in keep : j < i }) = k - 1]
               .Department_ID ]

cc_ids == [ i \in 1..Len(ref.cost_centers) |-> ref.cost_centers[i].Cost_Center_ID ]

jp_list == ref.job_profiles

matrix_org_ids ==
    [ i \in 1..Len(ref.matrix_orgs) |-> ref.matrix_orgs[i].Matrix_Organization_ID ]

\* jp_by_grade.get(grade_id, []): the profiles of a grade, in catalog order
jp_by_grade(grade_id) ==
    LET keep == { i \in 1..Len(jp_list) : jp_list[i].Compensation_Grade = grade_id }
    IN [ k \in 1..Cardinality(keep) |->
           jp_list[CHOOSE i \in keep : Cardinality({ j \in keep : j < i }) = k - 1] ]

\* the empty manager reference ("" in the code; employee ids are numbers here)
NoEmployee == 0

pick_job_profile_for_grade_without_fallback(g, grade_id) ==
    LET matching == jp_by_grade(grade_id)
    IN IF matching # <<>> THEN Pick(g, "job", matching)
       ELSE {}

\* _pick_job_profile_for_grade: the rows it can return; {} is None
pick_job_profile_for_grade(g, grade_id) ==
    LET matching == jp_by_grade(grade_id)
    IN IF matching # <<>> THEN Pick(g, "job", matching)
       ELSE IF jp_list # <<>> THEN Pick(g, "job", jp_list)
       ELSE {}

\* _pick_manager: the ids it can return, roster being self.active_employees
pick_manager(g, roster, employee_grade_id) ==
    LET grade_idx == GradeIndex(employee_grade_id) - 1
        min_mgr_grade_idx == grade_idx + 1
        candidates ==
            SelectSeq2(SortedSeq(DOMAIN roster),
                       { id \in DOMAIN roster :
                           GradeIndex(roster[id].grade_id) - 1 >= min_mgr_grade_idx })
    IN IF candidates # <<>>
       THEN Pick(g, "manager", SubSeq(candidates, 1, Min(100, Len(candidates))))
       ELSE {NoEmployee}

location_for_company_in_any_country(g, company_id) ==
    Pick(g, "location", ALL_LOCATIONS)

location_for_company_by_city(g, company_id) ==
    IF COMPANY_COUNTRY(company_id) = "CA" THEN {"Toronto"} ELSE {"New York"}

\* location_for_company: the ids of the locations it can return
location_for_company(g, company_id) ==
    IF COMPANY_COUNTRY(company_id) = "CA"
    THEN Pick(g, "location", LOCATIONS_CA)
    ELSE Pick(g, "location", LOCATIONS_US)

\* EmployeeEvent(...) as built by _process_hires; d holds what the hire drew
HireEvent(emp_id, pos_id, wid, worker_wid, hire_date, entry_dt, d) ==
    LET grade_obj == IF GradeIndex(d.grade_id) = 0 THEN GRADES[1]
                     ELSE GradeRow(d.grade_id)
    IN
    [ employee_id |-> emp_id,
      effective_date |-> hire_date,
      entry_datetime |-> entry_dt,
      sequence_number |-> 1,
      transaction_wid |-> wid,
      transaction_type |-> "Hire",
      action |-> "Hire",
      action_code |-> "HIR",
      action_reason_code |-> "HIR_NEW",
      position_id |-> pos_id,
      job_profile_id |-> d.jp.Job_Profile_ID,
      grade_id |-> d.grade_id,
      location_id |-> d.loc,
      company_id |-> d.company_id,
      cost_center_id |-> d.cc_id,
      sup_org_id |-> d.dept_id,
      matrix_org_id |-> d.matrix_id,
      comp_grade_profile |-> grade_obj.profile_id,
      pay_range_min |-> grade_obj.min,
      pay_range_mid |-> grade_obj.mid,
      pay_range_max |-> grade_obj.max,
      base_pay |-> d.base_pay,
      worker_status |-> "Active",
      active |-> TRUE,
      expected_date_of_return |-> NoDateText,
      resignation_date |-> NoDateText,
      hire_date |-> isoformat(hire_date),
      terminated |-> FALSE,
      primary_termination_category |-> "",
      termination_involuntary |-> FALSE,
      regrettable_termination |-> FALSE,
      not_eligible_for_hire |-> FALSE,
      manager_id |-> d.manager_id,
      worker_workday_id |-> worker_wid,
      supervisory_organization |-> d.dept_id,
      location_name |-> LocationName(d.loc) ]

gen_profile_next_id(emp_id, worker_wid) ==
    [employee_id |-> emp_id + 1, worker_workday_id |-> worker_wid]

\* EmployeeProfile(...) as built by _gen_profile
gen_profile(emp_id, worker_wid) ==
    [employee_id |-> emp_id, worker_workday_id |-> worker_wid]

clone_event_as_new_worker(source, new_date, entry_dt, r) ==
    [source EXCEPT !.effective_date = new_date,
                   !.entry_datetime = entry_dt,
                   !.transaction_wid = generate_wid(r),
                   !.worker_workday_id = generate_wid(r),
                   !.sequence_number = source.sequence_number + 1]

clone_event_keeping_date(source, new_date, entry_dt, r) ==
    [source EXCEPT !.entry_datetime = entry_dt,
                   !.transaction_wid = generate_wid(r),
                   !.sequence_number = source.sequence_number + 1]

clone_event_keeping_sequence(source, new_date, entry_dt, r) ==
    [source EXCEPT !.effective_date = new_date,
                   !.entry_datetime = entry_dt,
                   !.transaction_wid = generate_wid(r)]

\* _clone_event: entry_dt is what entry_date_from_effective returns, r the
\* float generate_wid draws
clone_event(source, new_date, entry_dt, r) ==
    [source EXCEPT !.effective_date = new_date,
                   !.entry_datetime = entry_dt,
                   !.transaction_wid = generate_wid(r),
                   !.sequence_number = source.sequence_number + 1]

\* int(current_hc * monthly_rate), annual_rate and the uniform draw u both
\* in percent
monthly_terms(annual_rate, hc, u) == (hc * annual_rate * u) \div (12 * 100 * 100)

\* _calc_monthly_terms: u is rng.uniform(0.7, 1.3) in percent
calc_monthly_terms(y, hc, u) == monthly_terms(ANNUAL_ATTRITION_RATE(y), hc, u)

--------------------------------------------------------------------------
(* generate_all.py main: the generator right after construction *)

\* no function of utils.py is being called on its own
NoCall == [fn |-> ""]
NotReturned == <<>>

\* the timeline generator right after construction, whatever the generator
\* and the reference data it was given
Constructed ==
    /\ pc = "month"
    /\ target_hc = 0
    /\ current_hc = 0
    /\ emp_ids = <<>>
    /\ n_hires = 0
    /\ employee_seq = 0
    /\ position_seq = 0
    /\ active_employees = <<>>
    /\ all_events = <<>>
    /\ profiles = <<>>
    /\ rescinded_wids = <<>>
    /\ position_assignments = <<>>
    /\ positions = <<>>
    /\ rows_095e = <<>>
    /\ rows_096 = <<>>
    /\ rows_098 = <<>>
    /\ rows_6031 = <<>>
    /\ call = NoCall
    /\ returned = NotReturned

\* generate_all: `current` is day 1 of the founding month
AtFounding(founded) == year = founded[1] /\ month = founded[2]

\* a run whose transaction-id and date draws are enumerated
Init ==
    /\ rng = [floats |-> 0, repeats |-> 0, varies |-> {"wid", "date"}]
    /\ \E f \in JobProfileGradeDraws(rng) : ref = ReferenceData(f)
    /\ Constructed
    /\ AtFounding(COMPANY_FOUNDED)

\* the draw sites a run enumerates when its catalog draws are followed: one
\* group of sites per run, every other draw taking the first outcome
CatalogSites ==
    { {"company", "location"}, {"grade", "pay"}, {"job", "jp_grade"},
      {"dept"}, {"cc"}, {"matrix"}, {"manager", "grade"}, {"term", "reason", "resign"} }

\* a run whose catalog, grade, pay, manager or termination draws are enumerated
InitCatalog ==
    /\ \E sites \in CatalogSites :
         rng = [floats |-> 0, repeats |-> 0, varies |-> sites]
    /\ \E f \in JobProfileGradeDraws(rng) : ref = ReferenceData(f)
    /\ Constructed
    /\ AtFounding(COMPANY_FOUNDED)

\* the catalogs ReferenceDataGenerator builds when a table of config.py is
\* empty: TOP_LEVEL_DEPTS (no department and no cost center), or MATRIX_ORGS
MalformedReferenceData(f) ==
    { [ReferenceData(f) EXCEPT !.departments = <<>>, !.cost_centers = <<>>],
      [ReferenceData(f) EXCEPT !.matrix_orgs = <<>>] }

\* a run on such catalogs, its matrix-organization draws enumerated
InitMalformed ==
    /\ rng = [floats |-> 0, repeats |-> 0, varies |-> {"matrix"}]
    /\ \E f \in JobProfileGradeDraws(rng) : ref \in MalformedReferenceData(f)
    /\ Constructed
    /\ AtFounding(COMPANY_FOUNDED)

feeds == <<positions, rows_095e, rows_096, rows_098, rows_6031>>
hire_state == <<employee_seq, position_seq, profiles, position_assignments>>

--------------------------------------------------------------------------
(* generate_all: top of the month loop, through the shuffle that opens     *)
(* _process_terminations.  emp_ids keeps the first `count` entries of the  *)
(* shuffled list, the only ones the termination loop reads.                *)

BeginMonth ==
    /\ pc = "month"
    /\ DateLE(<<year, month, 1>>, DATA_END_DATE)
    /\ LET month_end_dt == month_end(year, month)
           keys == KeysList(active_employees)
       IN /\ target_hc' = interpolate_headcount(month_end_dt)
          /\ current_hc' = Cardinality(DOMAIN active_employees)
          /\ \E u \in Randint(70, 130) :
               LET n_terms == calc_monthly_terms(year, current_hc', u)
               IN IF current_hc' > 0 /\ n_terms > 0
                  THEN \E p \in Shuffles(keys) :
                         emp_ids' = SubSeq(Shuffled(keys, p), 1,
                                           Min(n_terms, Len(keys)))
                  ELSE emp_ids' = <<>>
    /\ pc' = "terms"
    /\ UNCHANGED <<call, returned, ref, year, month, n_hires, rng, active_employees, all_events,
                   rescinded_wids>>
    /\ UNCHANGED hire_state
    /\ UNCHANGED feeds

TerminationBranch_flagging_any_category(g, cat) ==
    { [cat |-> cat,
       reason_code |-> IF cat = "Retirement" THEN "TER-RET"
                       ELSE IF cat = "Death" THEN "TER-DEA" ELSE "TER-EOC",
       involuntary |-> cat = "Involuntary",
       regrettable |-> regrettable, not_eligible |-> FALSE] :
         regrettable \in Flip(g, "term") }

\* _process_terminations, the branch on the drawn category: what the draws
\* of one termination can be
TerminationBranch(g, cat) ==
    IF cat = "Voluntary"
    THEN { [cat |-> cat, reason_code |-> reason_code, involuntary |-> FALSE,
            regrettable |-> regrettable, not_eligible |-> FALSE] :
              reason_code \in Pick(g, "reason", VOLUNTARY_REASONS),
              regrettable \in Flip(g, "term") }
    ELSE IF cat = "Involuntary"
    THEN { [cat |-> cat, reason_code |-> reason_code, involuntary |-> TRUE,
            regrettable |-> FALSE, not_eligible |-> not_eligible] :
              reason_code \in Pick(g, "reason", INVOLUNTARY_REASONS),
              not_eligible \in Flip(g, "term") }
    ELSE { [cat |-> cat,
            reason_code |-> IF cat = "Retirement" THEN "TER-RET"
                            ELSE IF cat = "Death" THEN "TER-DEA" ELSE "TER-EOC",
            involuntary |-> FALSE, regrettable |-> FALSE, not_eligible |-> FALSE] }

TerminationDraws(g) ==
    UNION { TerminationBranch(g, cat) : cat \in Pick(g, "term", TERM_REASON_MIX) }

\* max(term_date - timedelta(days), COMPANY_FOUNDED).isoformat()
resignation_date(term_date, days) ==
    LET resign_date == DatePlus(term_date, 0 - days)
    IN isoformat(IF DateLT(resign_date, COMPANY_FOUNDED) THEN COMPANY_FOUNDED
                 ELSE resign_date)

(* _process_terminations: one iteration of the loop *)
TerminateOne ==
    /\ pc = "terms"
    /\ emp_ids # <<>>
    /\ LET emp_id == Head(emp_ids)
           last_event == active_employees[emp_id]
       IN IF /\ last_event.effective_date[1] = year
             /\ last_event.effective_date[2] = month
          THEN UNCHANGED <<all_events, active_employees, rng>>
          ELSE \E term_date \in DateAt(rng, year, month, COMPANY_FOUNDED),
                  t \in TerminationDraws(rng),
                  r \in RandomFloats(rng) :
                 \E entry_dt \in entry_date_from_effective(rng, term_date),
                    resign_days \in RandintAt(rng, "resign", 14, 30) :
                 LET event == [clone_event(last_event, term_date, entry_dt, r) EXCEPT
                                 !.transaction_type = "Termination",
                                 !.action = "Termination",
                                 !.action_code = "TER",
                                 !.action_reason_code = t.reason_code,
                                 !.worker_status = "Terminated",
                                 !.active = FALSE,
                                 !.terminated = TRUE,
                                 !.primary_termination_category = t.cat,
                                 !.termination_involuntary = t.involuntary,
                                 !.regrettable_termination = t.regrettable,
                                 !.not_eligible_for_hire = t.not_eligible,
                                 !.resignation_date =
                                     IF t.cat = "Voluntary"
                                     THEN resignation_date(term_date, resign_days)
                                     ELSE @]
                 IN /\ all_events' = Append(all_events, event)
                    /\ active_employees' = DictDel(active_employees, emp_id)
                    /\ rng' = Drawn(rng, r)
    /\ emp_ids' = Tail(emp_ids)
    /\ UNCHANGED <<call, returned, ref, current_hc, pc, year, month, target_hc, n_hires, rescinded_wids>>
    /\ UNCHANGED hire_state
    /\ UNCHANGED feeds

(* _process_career_events: the list of active employees is taken *)
BeginCareer ==
    /\ pc = "terms"
    /\ emp_ids = <<>>
    /\ emp_ids' = KeysList(active_employees)
    /\ pc' = "career"
    /\ UNCHANGED <<call, returned, ref, current_hc, year, month, target_hc, n_hires, rng, active_employees,
                   all_events, rescinded_wids>>
    /\ UNCHANGED hire_state
    /\ UNCHANGED feeds

\* raise_pct of _apply_comp_change in thousandths: max(0, gauss(0.035, 0.015))
RaiseDraws(g) == IF "pay" \in g.varies THEN {0, 35, 150} ELSE {35}

\* round(base_pay * factor, 2) for factor = num / den, to the dollar
RoundedPay(base_pay, num, den) == (base_pay * num + den \div 2) \div den

apply_comp_change_unclamped(emp_id, eff_date, entry_dt, r) ==
    LET last_event == active_employees[emp_id]
        cloned == [clone_event(last_event, eff_date, entry_dt, r) EXCEPT
                     !.transaction_type = "Data Change",
                     !.action = "Data Change",
                     !.action_code = "DAT_CHG",
                     !.action_reason_code = "DAT_COMP"]
    IN \E raise_pct \in RaiseDraws(rng) :
         LET raised == RoundedPay(last_event.base_pay, 1000 + raise_pct, 1000)
             new_base == IF GradeIndex(cloned.grade_id) = 0 THEN raised
                         ELSE LET grade == GradeRow(cloned.grade_id)
                              IN raised
             event == [cloned EXCEPT !.base_pay = new_base]
         IN /\ all_events' = Append(all_events, event)
            /\ active_employees' = DictPut(active_employees, emp_id, event)
            /\ rng' = Drawn(rng, r)

\* _apply_comp_change
apply_comp_change(emp_id, eff_date, entry_dt, r) ==
    LET last_event == active_employees[emp_id]
        cloned == [clone_event(last_event, eff_date, entry_dt, r) EXCEPT
                     !.transaction_type = "Data Change",
                     !.action = "Data Change",
                     !.action_code = "DAT_CHG",
                     !.action_reason_code = "DAT_COMP"]
    IN \E raise_pct \in RaiseDraws(rng) :
         LET raised == RoundedPay(last_event.base_pay, 1000 + raise_pct, 1000)
             new_base == IF GradeIndex(cloned.grade_id) = 0 THEN raised
                         ELSE LET grade == GradeRow(cloned.grade_id)
                              IN Max(grade.min, Min(grade.max, raised))
             event == [cloned EXCEPT !.base_pay = new_base]
         IN /\ all_events' = Append(all_events, event)
            /\ active_employees' = DictPut(active_employees, emp_id, event)
            /\ rng' = Drawn(rng, r)

\* event.job_profile_id = jp["Job_Profile_ID"] for each jp the pick can
\* return; the event unchanged when the pick returns None
WithJobProfile(g, event, grade_id) ==
    LET jps == pick_job_profile_for_grade(g, grade_id)
    IN IF jps = {} THEN {event}
       ELSE { [event EXCEPT !.job_profile_id = jp.Job_Profile_ID] : jp \in jps }

\* event.sup_org_id = rng.choice(self.dept_ids), guarded by `if self.dept_ids`
WithDept(g, event) ==
    IF dept_ids = <<>> THEN {event}
    ELSE { [event EXCEPT !.sup_org_id = d] : d \in Pick(g, "dept", dept_ids) }

\* event.cost_center_id = rng.choice(self.cc_ids), guarded by `if self.cc_ids`
WithCostCenter(g, event) ==
    IF cc_ids = <<>> THEN {event}
    ELSE { [event EXCEPT !.cost_center_id = c] : c \in Pick(g, "cc", cc_ids) }

\* the branches of _apply_career_action on action["reason_code"]: the events
\* they can make of the cloned event
CareerBranch(g, last_event, event, code) ==
    IF code = "CHG_PROMO"
    THEN LET new_grade == next_grade(last_event.grade_id, "up")
         IN IF new_grade = "" THEN {event}
            ELSE LET grade_obj == GradeRow(new_grade)
                 IN { [e EXCEPT !.base_pay = pay,
                                !.pay_range_min = grade_obj.min,
                                !.pay_range_mid = grade_obj.mid,
                                !.pay_range_max = grade_obj.max,
                                !.comp_grade_profile = grade_obj.profile_id] :
                        e \in WithJobProfile(g, [event EXCEPT !.grade_id = new_grade],
                                             new_grade),
                        pay \in salary_for_grade(g, new_grade) }
    ELSE IF code = "CHG_DEMO"
    THEN LET new_grade == next_grade(last_event.grade_id, "down")
         IN IF new_grade = "" THEN {event}
            ELSE { [event EXCEPT !.grade_id = new_grade, !.base_pay = pay] :
                     pay \in salary_for_grade(g, new_grade) }
    ELSE IF code = "CHG_LAT"
    THEN UNION { IF move THEN WithDept(g, e) ELSE {e} :
                   e \in WithJobProfile(g, event, event.grade_id),
                   move \in Flip(g, "dept") }
    ELSE IF code = "CHG_XFER"
    THEN UNION { UNION { UNION { WithCostCenter(g, e) :
                                   e \in WithDept(g, [event EXCEPT
                                                        !.company_id = company_id,
                                                        !.location_id = loc]) } :
                           loc \in location_for_company(g, company_id) } :
                   company_id \in Pick(g, "company", COMPANIES) }
    ELSE IF code = "DAT_LOC"
    THEN { [event EXCEPT !.location_id = loc] :
             loc \in location_for_company(g, event.company_id) }
    ELSE IF code = "DAT_ORG"
    THEN UNION { WithCostCenter(g, e) : e \in WithDept(g, event) }
    ELSE IF code = "LOA_GEN"
    THEN { [event EXCEPT !.worker_status = "On Leave",
                         !.expected_date_of_return =
                             isoformat(DatePlus(event.effective_date, AVG_LOA_DAYS))] }
    ELSE IF code = "RFL_GEN"
    THEN { [event EXCEPT !.worker_status = "Active", !.active = TRUE,
                         !.expected_date_of_return = NoDateText] }
    ELSE {event}

\* the stored event itself is modified and appended
apply_career_action_in_place(emp_id, action, eff_date, entry_dt, r) ==
    LET last_event == active_employees[emp_id]
        stored == CHOOSE i \in 1..Len(all_events) : all_events[i] = last_event
        cloned == [clone_event(last_event, eff_date, entry_dt, r) EXCEPT
                     !.transaction_type = action.action,
                     !.action = action.action,
                     !.action_code = action.code,
                     !.action_reason_code = action.reason_code]
    IN \E event \in CareerBranch(rng, last_event, cloned, action.reason_code) :
         /\ all_events' = Append([all_events EXCEPT ![stored] = event], event)
         /\ active_employees' = DictPut(active_employees, emp_id, event)
         /\ rng' = Drawn(rng, r)

\* _apply_career_action
apply_career_action(emp_id, action, eff_date, entry_dt, r) ==
    LET last_event == active_employees[emp_id]
        cloned == [clone_event(last_event, eff_date, entry_dt, r) EXCEPT
                     !.transaction_type = action.action,
                     !.action = action.action,
                     !.action_code = action.code,
                     !.action_reason_code = action.reason_code]
    IN \E event \in CareerBranch(rng, last_event, cloned, action.reason_code) :
         /\ all_events' = Append(all_events, event)
         /\ active_employees' = DictPut(active_employees, emp_id, event)
         /\ rng' = Drawn(rng, r)

months_since_hire_counting_this_month(last_event) ==
    (year - last_event.effective_date[1]) * 12
    + month - last_event.effective_date[2] + 1

\* months_since_hire of _process_career_events, computed from the employee's
\* last event
months_since_hire(last_event) ==
    (year - last_event.effective_date[1]) * 12
    + month - last_event.effective_date[2]

CareerOne_in_any_month ==
    /\ pc = "career"
    /\ emp_ids # <<>>
    /\ LET emp_id == Head(emp_ids)
           last_event == active_employees[emp_id]
       IN IF months_since_hire(last_event) < 3
          THEN UNCHANGED <<all_events, active_employees, rng>>
          ELSE \E comp \in BOOLEAN,
                  career \in BOOLEAN,
                  action \in CAREER_ACTIONS,
                  eff_date \in DateAt(rng, year, month, COMPANY_FOUNDED),
                  r \in RandomFloats(rng) :
                 \E entry_dt \in entry_date_from_effective(rng, eff_date) :
                 IF comp THEN apply_comp_change(emp_id, eff_date, entry_dt, r)
                 ELSE IF career
                 THEN apply_career_action(emp_id, action, eff_date, entry_dt, r)
                 ELSE UNCHANGED <<all_events, active_employees, rng>>
    /\ emp_ids' = Tail(emp_ids)
    /\ UNCHANGED <<call, returned, ref, current_hc, pc, year, month, target_hc, n_hires, rescinded_wids>>
    /\ UNCHANGED hire_state
    /\ UNCHANGED feeds

(* _process_career_events: one iteration of the loop.  The two            *)
(* rng.random() < p tests can go either way.                               *)
CareerOne ==
    /\ pc = "career"
    /\ emp_ids # <<>>
    /\ LET emp_id == Head(emp_ids)
           last_event == active_employees[emp_id]
       IN IF months_since_hire(last_event) < 3
          THEN UNCHANGED <<all_events, active_employees, rng>>
          ELSE \E comp \in (IF month \in {1, 2, 3} THEN BOOLEAN ELSE {FALSE}),
                  career \in BOOLEAN,
                  action \in CAREER_ACTIONS,
                  eff_date \in DateAt(rng, year, month, COMPANY_FOUNDED),
                  r \in RandomFloats(rng) :
                 \E entry_dt \in entry_date_from_effective(rng, eff_date) :
                 IF comp THEN apply_comp_change(emp_id, eff_date, entry_dt, r)
                 ELSE IF career
                 THEN apply_career_action(emp_id, action, eff_date, entry_dt, r)
                 ELSE UNCHANGED <<all_events, active_employees, rng>>
    /\ emp_ids' = Tail(emp_ids)
    /\ UNCHANGED <<call, returned, ref, current_hc, pc, year, month, target_hc, n_hires, rescinded_wids>>
    /\ UNCHANGED hire_state
    /\ UNCHANGED feeds

BeginHires_without_buffer ==
    /\ pc = "career"
    /\ emp_ids = <<>>
    /\ current_hc' = Cardinality(DOMAIN active_employees)
    /\ n_hires' = (Max(0, target_hc - current_hc') * 95) \div 100
    /\ pc' = "hires"
    /\ UNCHANGED <<call, returned, ref, year, month, target_hc, emp_ids, rng, active_employees,
                   all_events, rescinded_wids>>
    /\ UNCHANGED <<employee_seq, position_seq, profiles, position_assignments>>
    /\ UNCHANGED <<positions, rows_095e, rows_096, rows_098, rows_6031>>

BeginHires_rounding_up ==
    /\ pc = "career"
    /\ emp_ids = <<>>
    /\ current_hc' = Cardinality(DOMAIN active_employees)
    /\ n_hires' = (Max(0, target_hc - current_hc') * 105 + 99) \div 100
    /\ pc' = "hires"
    /\ UNCHANGED <<call, returned, ref, year, month, target_hc, emp_ids, rng, active_employees,
                   all_events, rescinded_wids>>
    /\ UNCHANGED <<employee_seq, position_seq, profiles, position_assignments>>
    /\ UNCHANGED <<positions, rows_095e, rows_096, rows_098, rows_6031>>

(* generate_all: the hire count of the month *)
BeginHires ==
    /\ pc = "career"
    /\ emp_ids = <<>>
    /\ current_hc' = Cardinality(DOMAIN active_employees)
    /\ n_hires' = (Max(0, target_hc - current_hc') * 105) \div 100
    /\ pc' = "hires"
    /\ UNCHANGED <<call, returned, ref, year, month, target_hc, emp_ids, rng, active_employees,
                   all_events, rescinded_wids>>
    /\ UNCHANGED hire_state
    /\ UNCHANGED feeds

\* what one iteration of _process_hires can draw for the new employee, in
\* the order of the code; a draw with raised = TRUE is rng.choice called on
\* an empty list (IndexError)
HireDraws(g, roster) ==
    UNION { UNION { UNION {
        LET jps == pick_job_profile_for_grade(g, grade_id)
            depts == IF dept_ids # <<>> THEN Pick(g, "dept", dept_ids) ELSE {NoId}
            ccs == IF cc_ids # <<>> THEN Pick(g, "cc", cc_ids) ELSE {NoId}
            matrix == UNION { IF take
                              THEN (IF matrix_org_ids = <<>> THEN {"IndexError"}
                                    ELSE Pick(g, "matrix", matrix_org_ids))
                              ELSE {""} : take \in Flip(g, "matrix") }
        IN IF jps = {} THEN {[raised |-> TRUE]} ELSE
           { IF matrix_id = "IndexError" THEN [raised |-> TRUE] ELSE
             [ raised |-> FALSE,
               company_id |-> company_id, loc |-> loc, grade_id |-> grade_id,
               jp |-> jp, dept_id |-> dept_id, cc_id |-> cc_id,
               matrix_id |-> matrix_id,
               base_pay |-> IF COMPANY_COUNTRY(company_id) = "US"
                            THEN RoundedPay(pay, 105, 100) ELSE pay,
               manager_id |-> manager_id ] :
               jp \in jps, dept_id \in depts, cc_id \in ccs, matrix_id \in matrix,
               pay \in salary_for_grade(g, grade_id),
               manager_id \in pick_manager(g, roster, grade_id) } :
        grade_id \in Pick(g, "grade", GRADE_WEIGHTS) } :
        loc \in location_for_company(g, company_id) } :
        company_id \in Pick(g, "company", COMPANIES) }

(* _process_hires: one iteration of the loop, _gen_profile included.  An    *)
(* IndexError ends the run: pc becomes "crashed".                          *)
HireOne ==
    /\ pc = "hires"
    /\ n_hires > 0
    /\ employee_seq < MaxEmployees
    /\ employee_seq' = employee_seq + 1
    /\ position_seq' = position_seq + 1
    /\ \E d \in HireDraws(rng, active_employees) :
       IF d.raised
       THEN /\ pc' = "crashed"
            /\ UNCHANGED <<all_events, active_employees, position_assignments,
                           profiles, rng, n_hires>>
       ELSE
       \E r1 \in RandomFloats(rng) :
       \E r2 \in RandomFloats(Drawn(rng, r1)),
          hire_date \in DateAt(rng, year, month, COMPANY_FOUNDED) :
       \E entry_dt \in entry_date_from_effective(rng, hire_date) :
         LET emp_id == generate_employee_id(employee_seq')
             pos_id == generate_position_id(position_seq')
             wid == generate_wid(r1)
             worker_wid == generate_wid(r2)
             event == HireEvent(emp_id, pos_id, wid, worker_wid, hire_date,
                                entry_dt, d)
         IN /\ all_events' = Append(all_events, event)
            /\ active_employees' = DictPut(active_employees, emp_id, event)
            /\ position_assignments' =
                 Append(position_assignments,
                        [position_id |-> pos_id, effective_date |-> hire_date])
            /\ profiles' = Append(profiles, gen_profile(emp_id, worker_wid))
            /\ rng' = Drawn(Drawn(rng, r1), r2)
            /\ n_hires' = n_hires - 1
            /\ pc' = pc
    /\ UNCHANGED <<call, returned, ref, current_hc, year, month, target_hc, emp_ids, rescinded_wids>>
    /\ UNCHANGED feeds

EndMonth_within_the_year ==
    /\ pc = "hires"
    /\ n_hires = 0
    /\ IF month = 12
       THEN year' = year /\ month' = 1
       ELSE year' = year /\ month' = month + 1
    /\ pc' = "month"
    /\ UNCHANGED <<call, returned, ref, current_hc, target_hc, emp_ids, n_hires, rng, active_employees, all_events,
                   rescinded_wids>>
    /\ UNCHANGED hire_state
    /\ UNCHANGED feeds

(* generate_all: advance to the next month *)
EndMonth ==
    /\ pc = "hires"
    /\ n_hires = 0
    /\ IF month = 12
       THEN year' = year + 1 /\ month' = 1
       ELSE year' = year /\ month' = month + 1
    /\ pc' = "month"
    /\ UNCHANGED <<call, returned, ref, current_hc, target_hc, emp_ids, n_hires, rng, active_employees, all_events,
                   rescinded_wids>>
    /\ UNCHANGED hire_state
    /\ UNCHANGED feeds

--------------------------------------------------------------------------
(* After the month loop: rescind pass, positions, projection *)

RECURSIVE FilterSeq(_, _)
\* [e for e in s if e.transaction_type not in types]
FilterSeq(s, types) ==
    IF s = <<>> THEN <<>>
    ELSE IF Head(s).transaction_type \in types
    THEN FilterSeq(Tail(s), types)
    ELSE <<Head(s)>> \o FilterSeq(Tail(s), types)

RescindedRowOfWorker(event) ==
    [workday_id |-> event.worker_workday_id,
     rescinded_moment |-> datetime_isoformat(event.entry_datetime)]

\* the record generate_rescinded appends for one event
RescindedRow(event) ==
    [workday_id |-> event.transaction_wid,
     rescinded_moment |-> datetime_isoformat(event.entry_datetime)]

(* generate_rescinded, entered when the month loop ends *)
GenerateRescinded ==
    /\ pc = "month"
    /\ ~ DateLE(<<year, month, 1>>, DATA_END_DATE)
    /\ LET n_rescind == (Len(all_events) * RESCIND_RATE) \div 100
           candidates == FilterSeq(all_events, {"Hire"})
       IN \E p \in Shuffles(candidates) :
            LET shuffled == Shuffled(candidates, p)
                chosen == SubSeq(shuffled, 1, Min(n_rescind, Len(shuffled)))
            IN rescinded_wids' =
                 rescinded_wids \o [i \in 1..Len(chosen) |-> RescindedRow(chosen[i])]
    /\ pc' = "positions"
    /\ UNCHANGED <<call, returned, ref, current_hc, year, month, target_hc, emp_ids, n_hires, rng, active_employees,
                   all_events>>
    /\ UNCHANGED hire_state
    /\ UNCHANGED feeds

RECURSIVE PositionRows(_, _)
\* the loop of generate_positions: rows of the first assignment of each id
PositionRows(eps, seen_positions) ==
    IF eps = <<>> THEN <<>>
    ELSE LET ep == Head(eps)
         IN IF ep.position_id \in seen_positions
            THEN PositionRows(Tail(eps), seen_positions)
            ELSE <<[Position_ID |-> ep.position_id,
                    Effective_Date |-> ep.effective_date]>>
                 \o PositionRows(Tail(eps), seen_positions \cup {ep.position_id})

(* ReferenceDataGenerator.generate_positions *)
GeneratePositions ==
    /\ pc = "positions"
    /\ positions' = PositionRows(position_assignments, {})
    /\ pc' = "write"
    /\ UNCHANGED <<call, returned, ref, current_hc, year, month, target_hc, emp_ids, n_hires, rng, active_employees,
                   all_events, rescinded_wids, rows_095e, rows_096, rows_098,
                   rows_6031>>
    /\ UNCHANGED hire_state

\* _event_to_095e
event_to_095e(e) ==
    [ Employee_ID |-> e.employee_id,
      Transaction_WID |-> e.transaction_wid,
      Transaction_Type |-> e.transaction_type,
      Effective_Date |-> isoformat(e.effective_date),
      Position_ID |-> e.position_id,
      Worker_Status |-> e.worker_status,
      Action |-> e.action,
      Action_Code |-> e.action_code,
      Sequence_Number |-> Str(e.sequence_number),
      Worker_Workday_ID |-> e.worker_workday_id ]

event_to_096_base(e) ==
    [ Employee_ID |-> e.employee_id,
      Transaction_WID |-> e.transaction_wid,
      Transaction_Type |-> e.transaction_type,
      Sequence_Number |-> Str(e.sequence_number),
      Worker_Workday_ID |-> e.worker_workday_id ]

event_to_096_without_supervisory(e) ==
    LET base == event_to_096_base(e)
    IN << base @@ [Organization_Type |-> "Cost_Center"],
          base @@ [Organization_Type |-> "Company"] >>

\* _event_to_096: three rows built on the same base
event_to_096(e) ==
    LET base == event_to_096_base(e)
    IN << base @@ [Organization_Type |-> "Cost_Center"],
          base @@ [Organization_Type |-> "Company"],
          base @@ [Organization_Type |-> "Supervisory"] >>

\* _event_to_098
event_to_098(e) ==
    [ Employee_ID |-> e.employee_id,
      Transaction_WID |-> e.transaction_wid,
      Transaction_Type |-> e.transaction_type,
      Worker_Workday_ID |-> e.worker_workday_id ]

\* _profile_to_6031
profile_to_6031(p) ==
    [ Worker_ID |-> p.employee_id,
      Worker_Workday_ID |-> p.worker_workday_id ]

RECURSIVE Extend096(_)
\* rows_096 = []; for e in events: rows_096.extend(self._event_to_096(e))
Extend096(events) ==
    IF events = <<>> THEN <<>>
    ELSE event_to_096(Head(events)) \o Extend096(Tail(events))

(* TransactionalDataWriter.write_all: the rows of each transactional feed *)
WriteAll ==
    /\ pc = "write"
    /\ rows_095e' = [i \in 1..Len(all_events) |-> event_to_095e(all_events[i])]
    /\ rows_096' = Extend096(all_events)
    /\ rows_098' = [i \in 1..Len(all_events) |-> event_to_098(all_events[i])]
    /\ rows_6031' = [i \in 1..Len(profiles) |-> profile_to_6031(profiles[i])]
    /\ pc' = "done"
    /\ UNCHANGED <<call, returned, ref, current_hc, year, month, target_hc, emp_ids, n_hires, rng, active_employees,
                   all_events, rescinded_wids, positions>>
    /\ UNCHANGED hire_state

--------------------------------------------------------------------------

Next ==
    \/ BeginMonth
    \/ TerminateOne
    \/ BeginCareer
    \/ CareerOne
    \/ BeginHires
    \/ HireOne
    \/ EndMonth
    \/ GenerateRescinded
    \/ GeneratePositions
    \/ WriteAll

Spec == Init /\ [][Next]_vars

SpecCatalog == InitCatalog /\ [][Next]_vars

SpecMalformed == InitMalformed /\ [][Next]_vars

--------------------------------------------------------------------------
(* The headcount of a run with the configuration of config.py as shipped.  *)
(* The three passes of a month are reduced to what they do to              *)
(* len(self.active_employees), which current_hc holds throughout: the      *)
(* termination loop removes the first `count` ids of the shuffled roster   *)
(* (no last event is dated in the month being processed, so none is        *)
(* skipped), the career pass keeps the roster, and each iteration of the   *)
(* hire loop adds one id.                                                   *)

REFERENCE_FOUNDED == <<2016, 2, 13>>
REFERENCE_END_DATE == <<2026, 2, 13>>

REFERENCE_GROWTH_ANCHORS ==
    << <<(<<2016, 2, 28>>), 150>>,
       <<(<<2016, 6, 30>>), 600>>,
       <<(<<2016, 12, 31>>), 2000>>,
       <<(<<2017, 6, 30>>), 3500>>,
       <<(<<2017, 12, 31>>), 5000>>,
       <<(<<2018, 6, 30>>), 6500>>,
       <<(<<2018, 12, 31>>), 8000>>,
       <<(<<2019, 6, 30>>), 9000>>,
       <<(<<2019, 12, 31>>), 9500>>,
       <<(<<2020, 6, 30>>), 10000>>,
       <<(<<2020, 12, 31>>), 10000>>,
       <<(<<2021, 12, 31>>), 10200>>,
       <<(<<2022, 12, 31>>), 9800>>,
       <<(<<2023, 12, 31>>), 10100>>,
       <<(<<2024, 12, 31>>), 10300>>,
       <<(<<2025, 12, 31>>), 10000>>,
       <<(<<2026, 2, 13>>), 10050>> >>

\* ANNUAL_ATTRITION_RATE.get(year, 0.14), in percent
REFERENCE_ATTRITION_RATE(y) ==
    CASE y = 2016 -> 6 [] y = 2017 -> 8 [] y = 2018 -> 10 [] y = 2019 -> 12
      [] y = 2020 -> 14 [] y = 2021 -> 15 [] y = 2022 -> 16 [] y = 2023 -> 15
      [] y = 2024 -> 14 [] y = 2025 -> 13 [] y = 2026 -> 13 [] OTHER -> 14

\* _calc_monthly_terms: rng.uniform(0.7, 1.3) is a continuous draw, so the
\* count is any integer between the counts of its two ends
ReferenceMonthlyTerms(y, hc) ==
    monthly_terms(REFERENCE_ATTRITION_RATE(y), hc, 70)
    .. monthly_terms(REFERENCE_ATTRITION_RATE(y), hc, 130)

InitHeadcount ==
    /\ rng = [floats |-> 0, repeats |-> 0, varies |-> {}]
    /\ \E f \in JobProfileGradeDraws(rng) : ref = ReferenceData(f)
    /\ Constructed
    /\ AtFounding(REFERENCE_FOUNDED)

(* generate_all: the target of the month and the termination pass *)
HeadcountTerminations ==
    /\ pc = "month"
    /\ DateLE(<<year, month, 1>>, REFERENCE_END_DATE)
    /\ target_hc' = interpolate_between(REFERENCE_GROWTH_ANCHORS,
                                        month_end(year, month))
    /\ \E n_terms \in ReferenceMonthlyTerms(year, current_hc) :
         current_hc' = IF current_hc > 0 /\ n_terms > 0
                       THEN current_hc - Min(n_terms, current_hc)
                       ELSE current_hc
    /\ pc' = "career"
    /\ UNCHANGED <<call, returned, ref, year, month, emp_ids, n_hires, rng, active_employees,
                   all_events, rescinded_wids>>
    /\ UNCHANGED hire_state
    /\ UNCHANGED feeds

(* generate_all: the hire count of the month and the hire loop *)
HeadcountHires ==
    /\ pc = "career"
    /\ current_hc' = current_hc + (Max(0, target_hc - current_hc) * 105) \div 100
    /\ n_hires' = 0
    /\ pc' = "hires"
    /\ UNCHANGED <<call, returned, ref, year, month, target_hc, emp_ids, rng, active_employees,
                   all_events, rescinded_wids>>
    /\ UNCHANGED hire_state
    /\ UNCHANGED feeds

NextHeadcount ==
    \/ HeadcountTerminations
    \/ HeadcountHires
    \/ EndMonth

SpecHeadcount == InitHeadcount /\ [][NextHeadcount]_vars

\* the test `while current <= end` passes and the body of the loop is entered:
\* the step HeadcountTerminations takes, whatever it draws
WhileBodyEntered ==
    /\ pc = "month"
    /\ DateLE(<<year, month, 1>>, REFERENCE_END_DATE)
    /\ pc' = "career"

\* generate_all is one sequential loop: a step that can be taken is taken
SpecDriver ==
    /\ InitHeadcount
    /\ [][NextHeadcount]_vars
    /\ WF_pc(WhileBodyEntered)
    /\ WF_pc(HeadcountHires)
    /\ WF_pc(EndMonth)

--------------------------------------------------------------------------
(* utils.py interpolate_headcount called on its own, on any date-ordered
   list of anchors *)

MaxAnchors == 3

\* the days of the anchors, around the end of February of a leap year
AnchorDates == { <<2016, 2, 27>>, <<2016, 2, 29>>, <<2016, 3, 3>>, <<2016, 3, 4>> }
AnchorHeadcounts == { 0, 2, 7 }
\* the target dates: every day from before the first anchor to after the last
TargetDates == { DatePlus(<<2016, 2, 26>>, k) : k \in 0..8 }

\* the lists of (date, headcount) pairs in date order
AnchorLists ==
    { a \in UNION { [1..n -> AnchorDates \X AnchorHeadcounts] : n \in 1..MaxAnchors } :
        \A i \in 1..(Len(a) - 1) : DateLT(a[i][1], a[i + 1][1]) }

InitInterpolate ==
    /\ rng = [floats |-> 0, repeats |-> 0, varies |-> {}]
    /\ \E f \in JobProfileGradeDraws(rng) : ref = ReferenceData(f)
    /\ pc = "month"
    /\ target_hc = 0
    /\ current_hc = 0
    /\ emp_ids = <<>>
    /\ n_hires = 0
    /\ employee_seq = 0
    /\ position_seq = 0
    /\ active_employees = <<>>
    /\ all_events = <<>>
    /\ profiles = <<>>
    /\ rescinded_wids = <<>>
    /\ position_assignments = <<>>
    /\ positions = <<>>
    /\ rows_095e = <<>>
    /\ rows_096 = <<>>
    /\ rows_098 = <<>>
    /\ rows_6031 = <<>>
    /\ AtFounding(COMPANY_FOUNDED)
    /\ \E a \in AnchorLists, d \in TargetDates :
          call = [fn |-> "interpolate_headcount", anchors |-> a, target_date |-> d]
    /\ returned = NotReturned

\* the call returns
CallInterpolate ==
    /\ call.fn = "interpolate_headcount"
    /\ returned = NotReturned
    /\ returned' = <<interpolate_between(call.anchors, call.target_date)>>
    /\ UNCHANGED <<call, ref, year, month, target_hc, current_hc, emp_ids, n_hires, rng>>
    /\ UNCHANGED <<active_employees, all_events, rescinded_wids, pc>>
    /\ UNCHANGED hire_state
    /\ UNCHANGED feeds

NextInterpolate == CallInterpolate

SpecInterpolate == InitInterpolate /\ [][NextInterpolate]_vars

--------------------------------------------------------------------------
(* _process_career_events over a roster of one employee hired in the
   founding month, in the last months of 2016 and every month of 2017 *)

CareerMonths == { <<2016, 11>>, <<2016, 12>> } \cup { <<2017, m>> : m \in 1..12 }

InitCareer ==
    /\ \E f \in JobProfileGradeDraws([floats |-> 0, repeats |-> 0, varies |-> {}]) :
          ref = ReferenceData(f)
    /\ \E ym \in CareerMonths : year = ym[1] /\ month = ym[2]
    /\ pc = "career"
    /\ target_hc = interpolate_headcount(month_end(year, month))
    /\ current_hc = 1
    /\ n_hires = 0
    /\ employee_seq = 1
    /\ position_seq = 1
    /\ rng = [floats |-> 2, repeats |-> 0, varies |-> {"company", "pay", "entry"}]
    /\ \E d \in HireDraws(rng, <<>>),
          entry_dt \in entry_date_from_effective(rng, COMPANY_FOUNDED) :
          /\ ~d.raised
          /\ LET emp_id == generate_employee_id(1)
                 pos_id == generate_position_id(1)
                 hire_date == COMPANY_FOUNDED
                 event == HireEvent(emp_id, pos_id, generate_wid(1),
                                    generate_wid(2), hire_date, entry_dt, d)
             IN /\ all_events = <<event>>
                /\ active_employees = DictPut(<<>>, emp_id, event)
                /\ emp_ids = <<emp_id>>
                /\ position_assignments =
                      <<[position_id |-> pos_id, effective_date |-> hire_date]>>
                /\ profiles = <<gen_profile(emp_id, generate_wid(2))>>
    /\ rescinded_wids = <<>>
    /\ positions = <<>>
    /\ rows_095e = <<>>
    /\ rows_096 = <<>>
    /\ rows_098 = <<>>
    /\ rows_6031 = <<>>
    /\ call = NoCall
    /\ returned = NotReturned

NextCareer == CareerOne

SpecCareer == InitCareer /\ [][NextCareer]_vars

--------------------------------------------------------------------------
(* Properties *)

Events == 1..Len(all_events)
EmployeeIds == { all_events[i].employee_id : i \in Events }
EventsOf(id) == { i \in Events : all_events[i].employee_id = id }
IsHire(i) == all_events[i].action = "Hire"
IsTermination(i) == all_events[i].action = "Termination"
SameMonth(a, b) == a[1] = b[1] /\ a[2] = b[2]

\* C1: for every employee the sequence numbers of the employee's events, in
\* the order the events were produced, are 1, 2, ..., k: the Hire event has
\* number 1 and every later event of the employee has the number of the
\* employee's preceding event plus 1.
C1_SequenceContiguous ==
    \A i \in Events :
        LET e == all_events[i]
            earlier == { j \in 1..i : all_events[j].employee_id = e.employee_id }
        IN /\ e.sequence_number = Cardinality(earlier)
           /\ IsHire(i) <=> e.sequence_number = 1

\* an employee with events numbered 1, 2, 3 (hire, a change, a termination)
C1_Witness ==
    \E id \in EmployeeIds :
        /\ Cardinality(EventsOf(id)) = 3
        /\ \E i \in EventsOf(id) : IsTermination(i)

\* C2: once an employee has a Termination event, no event produced after it
\* carries that employee id, and the id is not in the active roster.
C2_TerminatedIsFinal ==
    \A i \in Events :
        IsTermination(i) =>
            /\ \A j \in Events : j > i =>
                   all_events[j].employee_id # all_events[i].employee_id
            /\ all_events[i].employee_id \notin DOMAIN active_employees

\* after a termination, a hire and a career or compensation event of a later
\* month follow
C2_Witness ==
    \E i, j, k \in Events :
        /\ i < j /\ i < k
        /\ IsTermination(i)
        /\ IsHire(j)
        /\ ~ IsHire(k) /\ ~ IsTermination(k)
        /\ ~ SameMonth(all_events[k].effective_date, all_events[i].effective_date)

\* C3: every employee id that occurs in all_events has exactly one event
\* whose action is Hire.
C3_ExactlyOneHire ==
    \A id \in EmployeeIds :
        Cardinality({ i \in EventsOf(id) : IsHire(i) }) = 1

\* a hire made after an earlier employee was terminated, and an employee
\* with a derived event besides the hire
C3_Witness ==
    /\ \E i, j \in Events : i < j /\ IsTermination(i) /\ IsHire(j)
    /\ \E i \in Events :
          ~ IsHire(i) /\ ~ IsTermination(i)

\* the state part of C4: no two Hire events share an employee id or a
\* position id; every Hire event's ids were issued by the counters; and
\* the number of distinct position ids equals the number of profiles (also
\* in the positions feed).
C4_StatePart ==
    /\ \A i, j \in Events :
          (IsHire(i) /\ IsHire(j) /\ i # j) =>
              /\ all_events[i].employee_id # all_events[j].employee_id
              /\ all_events[i].position_id # all_events[j].position_id
    /\ \A i \in Events :
          IsHire(i) =>
              \E n \in 1..employee_seq :
                  /\ all_events[i].employee_id = generate_employee_id(n)
                  /\ all_events[i].position_id = generate_position_id(n)
    /\ employee_seq = position_seq
    /\ Cardinality({ position_assignments[i].position_id :
                        i \in 1..Len(position_assignments) }) = Len(profiles)
    /\ pc = "done" =>
          Cardinality({ positions[i].Position_ID : i \in 1..Len(positions) })
              = Len(rows_6031)

\* C4: employee and position ids come from counters that only grow, so no
\* id is issued twice, and there are as many distinct position ids as
\* profiles.
C4_IdsNeverReused ==
    /\ [] C4_StatePart
    /\ [][employee_seq' >= employee_seq /\ position_seq' >= position_seq]_vars

\* three hires in three different months, the second and third made after a
\* termination, projected to the feeds
C4_Witness ==
    /\ pc = "done"
    /\ employee_seq = 3
    /\ \E i, j, k \in Events :
          /\ i < j /\ j < k
          /\ IsTermination(i) /\ IsHire(j) /\ IsHire(k)
          /\ ~ SameMonth(all_events[j].effective_date, all_events[k].effective_date)

\* C5: no two events of all_events carry the same transaction id.
C5_TransactionIdsUnique ==
    \A i, j \in Events :
        i # j => all_events[i].transaction_wid # all_events[j].transaction_wid

\* C6: the worker-organization rows are exactly three per event, in event
\* order a Cost_Center, a Company and a Supervisory row, each carrying the
\* event's transaction id and its sequence number as written by str(); so
\* the organization feed has three times the rows of the worker-job feed.
C6_ThreeOrgRowsPerEvent ==
    pc = "done" =>
        /\ Len(rows_095e) = Len(all_events)
        /\ Len(rows_096) = 3 * Len(rows_095e)
        /\ \A i \in Events :
              /\ rows_096[3 * i - 2].Organization_Type = "Cost_Center"
              /\ rows_096[3 * i - 1].Organization_Type = "Company"
              /\ rows_096[3 * i].Organization_Type = "Supervisory"
              /\ \A k \in (3 * i - 2)..(3 * i) :
                    /\ rows_096[k].Transaction_WID = all_events[i].transaction_wid
                    /\ rows_096[k].Sequence_Number = Str(all_events[i].sequence_number)
                    /\ rows_096[k].Transaction_WID = rows_095e[i].Transaction_WID
                    /\ rows_096[k].Sequence_Number = rows_095e[i].Sequence_Number

\* the feeds of a history with hires, a termination and a second event of
\* one employee have been written
C6_Witness ==
    /\ pc = "done"
    /\ Len(rows_096) >= 12
    /\ \E i \in Events : IsTermination(i)
    /\ \E k \in 1..Len(rows_096) : rows_096[k].Sequence_Number = Str(2)

\* C7: the employee ids of the events are the employee ids of the profiles,
\* no two profiles share an id, and the same holds of the worker-job and
\* worker-profile feeds once written.
C7_EventAndProfileIdsAgree ==
    /\ EmployeeIds = { profiles[i].employee_id : i \in 1..Len(profiles) }
    /\ \A i, j \in 1..Len(profiles) :
          i # j => profiles[i].employee_id # profiles[j].employee_id
    /\ pc = "done" =>
          /\ { rows_095e[i].Employee_ID : i \in 1..Len(rows_095e) }
               = { rows_6031[i].Worker_ID : i \in 1..Len(rows_6031) }
          /\ Cardinality({ rows_6031[i].Worker_ID : i \in 1..Len(rows_6031) })
               = Len(rows_6031)

\* three employees hired in different months, one of them terminated, and
\* the feeds written
C7_Witness ==
    /\ pc = "done"
    /\ Len(rows_6031) = 3
    /\ \E i \in Events : IsTermination(i)
    /\ Len(all_events) > Len(profiles)

\* C8: after the rescind pass every rescinded record's workday_id is the
\* transaction id of an event of all_events, hence of a row of the job,
\* organization and compensation feeds.
C8_RescindedAreTransactions ==
    /\ \A k \in 1..Len(rescinded_wids) :
          \E i \in Events :
              rescinded_wids[k].workday_id = all_events[i].transaction_wid
    /\ pc = "done" =>
          { rescinded_wids[k].workday_id : k \in 1..Len(rescinded_wids) }
             \subseteq
                { rows_095e[i].Transaction_WID : i \in 1..Len(rows_095e) }
                \cup { rows_096[i].Transaction_WID : i \in 1..Len(rows_096) }
                \cup { rows_098[i].Transaction_WID : i \in 1..Len(rows_098) }

\* the rescind pass selected a transaction
C8_Witness ==
    /\ pc = "done"
    /\ Len(rescinded_wids) >= 1

\* C9: no event has an effective date earlier than the founding date.
C9_NoEventBeforeFounding ==
    \A i \in Events : ~ DateLT(all_events[i].effective_date, COMPANY_FOUNDED)

\* the driver started on day 1 of the founding month, before the founding
\* date; a hire fell on the founding date itself, and a termination and a
\* career or compensation event were produced later
C9_Witness ==
    /\ DateLT(<<COMPANY_FOUNDED[1], COMPANY_FOUNDED[2], 1>>, COMPANY_FOUNDED)
    /\ \E i \in Events :
          IsHire(i) /\ all_events[i].effective_date = COMPANY_FOUNDED
    /\ \E i \in Events : IsTermination(i)
    /\ \E i \in Events : ~ IsHire(i) /\ ~ IsTermination(i)

\* the ids of a catalog of self.ref
CatalogIds(rows, key) == { rows[i][key] : i \in 1..Len(rows) }

\* C11: in every event each non-empty catalog reference (department,
\* location, grade, job profile, company, cost center, matrix organization)
\* is the id of a row of the catalogs ReferenceDataGenerator produced.
C11_CatalogReferencesResolve ==
    \A i \in Events :
        LET e == all_events[i]
        IN /\ e.sup_org_id # NoId =>
                e.sup_org_id \in CatalogIds(ref.departments, "Department_ID")
           /\ e.location_id # "" =>
                e.location_id \in CatalogIds(ref.locations, "Location_ID")
           /\ e.grade_id # "" =>
                e.grade_id \in CatalogIds(ref.grades, "Grade_ID")
           /\ e.job_profile_id # NoId =>
                e.job_profile_id \in CatalogIds(ref.job_profiles, "Job_Profile_ID")
           /\ e.company_id # "" =>
                e.company_id \in CatalogIds(ref.companies, "Company_ID")
           /\ e.cost_center_id # NoId =>
                e.cost_center_id \in CatalogIds(ref.cost_centers, "Cost_Center_ID")
           /\ e.matrix_org_id # "" =>
                e.matrix_org_id \in
                    CatalogIds(ref.matrix_orgs, "Matrix_Organization_ID")

\* an employee was transferred to another company and location than the
\* ones of the Hire
C11_Witness ==
    \E i, j \in Events :
        /\ i < j
        /\ all_events[i].employee_id = all_events[j].employee_id
        /\ IsHire(i)
        /\ all_events[j].action_reason_code = "CHG_XFER"
        /\ all_events[j].company_id # all_events[i].company_id
        /\ all_events[j].location_id # all_events[i].location_id

\* the latest event of employee id among the events recorded before event i
\* (0 when there is none)
LatestBefore(id, i) ==
    LET earlier == { j \in EventsOf(id) : j < i }
    IN IF earlier = {} THEN 0
       ELSE CHOOSE j \in earlier : \A k \in earlier : k <= j

\* C12: an event's manager reference, if set, names another employee whose
\* grade rank in their latest event at that time is strictly greater than
\* the subject's grade rank in the event; also after promotions, demotions
\* and further events of either.
C12_ManagerOutranksSubject ==
    \A i \in Events :
        LET e == all_events[i]
            m == LatestBefore(e.manager_id, i)
        IN e.manager_id # NoEmployee =>
             /\ e.manager_id # e.employee_id
             /\ m # 0
             /\ GradeIndex(all_events[m].grade_id) > GradeIndex(e.grade_id)

TerminationCategories ==
    {"Voluntary", "Involuntary", "Retirement", "Death", "End of Contract"}

\* C13: a Termination event's category is one of Voluntary, Involuntary,
\* Retirement, Death, End of Contract; it is regrettable only if Voluntary
\* and not eligible for rehire only if Involuntary; every other event has
\* both flags false.
C13_TerminationFlags ==
    \A i \in Events :
        LET e == all_events[i]
        IN IF IsTermination(i)
           THEN /\ e.primary_termination_category \in TerminationCategories
                /\ e.regrettable_termination =>
                     e.primary_termination_category = "Voluntary"
                /\ e.not_eligible_for_hire =>
                     e.primary_termination_category = "Involuntary"
           ELSE ~ e.regrettable_termination /\ ~ e.not_eligible_for_hire

\* a regrettable termination and a termination without rehire were both
\* recorded, next to an event that is neither a Hire nor a Termination
C13_Witness ==
    /\ \E i \in Events : IsTermination(i) /\ all_events[i].regrettable_termination
    /\ \E i \in Events : IsTermination(i) /\ all_events[i].not_eligible_for_hire
    /\ \E i \in Events : ~ IsHire(i) /\ ~ IsTermination(i)

IsPromotion(i) == all_events[i].action_reason_code = "CHG_PROMO"
IsDemotion(i) == all_events[i].action_reason_code = "CHG_DEMO"

\* the event the career action of event i was applied to
EventBefore(i) == all_events[LatestBefore(all_events[i].employee_id, i)]

\* C14: a Promotion applied at grade Gn with n < 15 yields an event at
\* Gn+1 whose base pay lies within the band of Gn+1; applied at G15 it
\* yields an event still at G15, and the run does not fail.
C14_PromotionMovesOneGradeUp ==
    /\ pc # "crashed"
    /\ \A i \in Events :
          IsPromotion(i) =>
            LET n == GradeIndex(EventBefore(i).grade_id)
                e == all_events[i]
            IN IF n < Len(GRADES)
               THEN /\ e.grade_id = GRADES[n + 1].id
                    /\ e.base_pay >= GRADES[n + 1].min
                    /\ e.base_pay <= GRADES[n + 1].max
               ELSE e.grade_id = "G15"

\* an employee below the top grade was promoted and the salary draw was
\* clipped to the upper end of the new band
C14_Witness ==
    \E i \in Events :
        /\ IsPromotion(i)
        /\ GradeIndex(EventBefore(i).grade_id) < Len(GRADES)
        /\ all_events[i].base_pay = GradeRow(all_events[i].grade_id).max

\* an employee at the top grade was promoted
C14_WitnessTopGrade ==
    \E i \in Events : IsPromotion(i) /\ EventBefore(i).grade_id = "G15"

\* C15: with the configuration as shipped, whatever the attrition draws, the
\* number of active employees at the end of December 2025 lies between
\* 9000 and 11000.
C15_HeadcountEnd2025 ==
    (year = 2025 /\ month = 12 /\ pc = "hires") =>
        (current_hc >= 9000 /\ current_hc <= 11000)

\* December 2025 was processed, after a year whose hires closed a gap to the
\* target curve every month; the roster ends above the anchor of 10000
C15_Witness ==
    /\ year = 2025 /\ month = 12 /\ pc = "hires"
    /\ target_hc = 10000
    /\ current_hc > target_hc

\* when the termination pass of a month starts, no employee of the roster
\* has a last event dated in that month: the pass skips nobody
TerminationPassSkipsNobody ==
    pc = "terms" =>
        \A id \in DOMAIN active_employees :
            ~ SameMonth(active_employees[id].effective_date, <<year, month, 1>>)

\* a required catalog is empty
MalformedConfiguration ==
    \E name \in DOMAIN ref : ref[name] = <<>>

\* C16: a run on a malformed configuration (here: an empty catalog) aborts
\* before any event is generated.
C16_MalformedConfigurationAborts ==
    MalformedConfiguration => all_events = <<>>

\* the pass of the monthly loop that records an event: 1 the termination
\* pass, 2 the career pass (career actions and compensation changes), 3 the
\* hire pass
PassOf(i) == IF IsTermination(i) THEN 1 ELSE IF IsHire(i) THEN 3 ELSE 2

\* C17: the events of a month are recorded terminations first, then career
\* actions and compensation changes, then hires, month after month; so an
\* employee hired in a month has no other event in that month, and an
\* employee terminated in a month has no career event in that month.
C17_MonthlyPassOrder ==
    /\ \A i, j \in Events :
          i < j =>
            LET a == all_events[i].effective_date
                b == all_events[j].effective_date
            IN /\ DateLE(<<a[1], a[2], 1>>, <<b[1], b[2], 1>>)
               /\ SameMonth(a, b) => PassOf(i) <= PassOf(j)
    /\ \A i, j \in Events :
          /\ i # j
          /\ all_events[i].employee_id = all_events[j].employee_id
          /\ SameMonth(all_events[i].effective_date, all_events[j].effective_date)
          => (~ IsHire(i) /\ ~ (IsTermination(i) /\ PassOf(j) = 2))

\* in one month an employee was terminated, another received a career
\* event and a third was hired
C17_Witness ==
    \E i, j, k \in Events :
        /\ i < j /\ j < k
        /\ PassOf(i) = 1 /\ PassOf(j) = 2 /\ PassOf(k) = 3
        /\ SameMonth(all_events[i].effective_date, all_events[j].effective_date)
        /\ SameMonth(all_events[j].effective_date, all_events[k].effective_date)

\* C18: no employee has a Termination event whose effective date falls in
\* the calendar month of that employee's Hire event.
C18_NoTerminationInHireMonth ==
    \A i, j \in Events :
        /\ all_events[i].employee_id = all_events[j].employee_id
        /\ IsHire(i)
        /\ IsTermination(j)
        => ~ SameMonth(all_events[i].effective_date, all_events[j].effective_date)

\* an employee hired on the last day of a month was terminated on the first
\* day of the next month
C18_Witness ==
    \E i, j \in Events :
        /\ all_events[i].employee_id = all_events[j].employee_id
        /\ IsHire(i)
        /\ IsTermination(j)
        /\ all_events[j].effective_date = NextDay(all_events[i].effective_date)

\* the employee's event with the highest sequence number
LatestEventOf(id) ==
    all_events[CHOOSE i \in EventsOf(id) :
                 \A j \in EventsOf(id) :
                     all_events[j].sequence_number <= all_events[i].sequence_number]

\* C19: the roster is the set of hired employee ids without a Termination
\* event, and the event it stores for an id is that employee's latest event.
C19_RosterIsLatestOfActive ==
    /\ DOMAIN active_employees =
          { id \in EmployeeIds :
              /\ \E i \in EventsOf(id) : IsHire(i)
              /\ \A i \in EventsOf(id) : ~ IsTermination(i) }
    /\ \A id \in DOMAIN active_employees :
          active_employees[id] = LatestEventOf(id)

\* the roster stores a later event than the Hire for one employee, while
\* another employee was terminated and left it
C19_Witness ==
    /\ \E id \in DOMAIN active_employees :
          active_employees[id].sequence_number >= 2
    /\ \E i \in Events :
          IsTermination(i) /\ all_events[i].employee_id \notin DOMAIN active_employees

\* the compensation grade of a job profile of the catalog ("" when the id
\* is not in it)
GradeOfJobProfile(job_profile_id) ==
    LET rows == { i \in 1..Len(ref.job_profiles) :
                    ref.job_profiles[i].Job_Profile_ID = job_profile_id }
    IN IF rows = {} THEN ""
       ELSE ref.job_profiles[CHOOSE i \in rows : TRUE].Compensation_Grade

\* the fields of event e that depend on its grade are those of grade row g
CarriesGrade(e, g) ==
    /\ e.grade_id = g.id
    /\ GradeOfJobProfile(e.job_profile_id) = g.id
    /\ e.base_pay >= g.min /\ e.base_pay <= g.max
    /\ e.pay_range_min = g.min
    /\ e.pay_range_mid = g.mid
    /\ e.pay_range_max = g.max
    /\ e.comp_grade_profile = g.profile_id

\* C20: a Promotion moves the employee one grade up and a Demotion one
\* grade down, when that grade exists, and the resulting event carries the
\* job profile, base pay and pay range (min, mid, max, grade profile) of
\* the new grade.
C20_GradeMoveCarriesNewGrade ==
    \A i \in Events :
        LET n == GradeIndex(EventBefore(i).grade_id)
        IN /\ (IsPromotion(i) /\ n < Len(GRADES)) =>
                CarriesGrade(all_events[i], GRADES[n + 1])
           /\ (IsDemotion(i) /\ n > 1) =>
                CarriesGrade(all_events[i], GRADES[n - 1])

\* the Hire event of an employee
HireOf(id) == all_events[CHOOSE i \in EventsOf(id) : IsHire(i)]

\* calendar months from the employee's hire month to the month being
\* processed
TenureMonths(id) ==
    (year - HireOf(id).effective_date[1]) * 12
    + month - HireOf(id).effective_date[2]

\* C21: in the career pass an active employee is evaluated exactly when the
\* hire month lies at least 3 calendar months before the month being
\* processed, and no employee with less tenure has a career-action or
\* compensation-change event.
C21_EvaluatedByTenure ==
    /\ (pc = "career" /\ emp_ids # <<>>) =>
          LET id == Head(emp_ids)
          IN (months_since_hire(active_employees[id]) >= 3) <=> (TenureMonths(id) >= 3)
    /\ \A i \in Events :
          PassOf(i) = 2 =>
            LET h == HireOf(all_events[i].employee_id).effective_date
                d == all_events[i].effective_date
            IN (d[1] - h[1]) * 12 + d[2] - h[2] >= 3

\* the Hire events dated in the month being processed
HiresOfMonth ==
    { i \in Events :
        IsHire(i) /\ SameMonth(all_events[i].effective_date, <<year, month, 1>>) }

C22_WitnessNoHire ==
    /\ pc = "hires"
    /\ n_hires = 0
    /\ Cardinality(HiresOfMonth) = 0
    /\ Cardinality(DOMAIN active_employees) >= 1

\* the state part of C23: when the hire loop of a month has ended the
\* roster is at least as large as the month's target
C23_StatePart ==
    (pc = "hires" /\ n_hires = 0) =>
        Cardinality(DOMAIN active_employees)
            >= interpolate_headcount(month_end(year, month))

\* C23: at the end of every simulated month, after the hire step, the
\* roster size is at least the growth-curve target of the month's end, and
\* the roster never shrinks during the hire step.
C23_RosterReachesTarget ==
    /\ [] C23_StatePart
    /\ [][pc = "hires" => DOMAIN active_employees \subseteq DOMAIN active_employees']_vars

\* a month ended with the roster at its target of two after a hire, in a
\* month that had started with a termination
C23_Witness ==
    /\ pc = "hires"
    /\ n_hires = 0
    /\ interpolate_headcount(month_end(year, month)) = 2
    /\ Cardinality(DOMAIN active_employees) = 2
    /\ Cardinality(HiresOfMonth) >= 1
    /\ \E i \in Events :
          /\ IsTermination(i)
          /\ SameMonth(all_events[i].effective_date, <<year, month, 1>>)

IsLeave(i) == all_events[i].action = "Leave of Absence"
IsReturn(i) == all_events[i].action = "Return from Leave"

\* C25: a Return from Leave is applied only to an employee whose preceding
\* event has status On Leave, and a Leave of Absence only to one whose
\* preceding status is Active; a Leave of Absence sets the status On Leave
\* with a non-empty expected date of return, and a Return from Leave sets
\* the status Active and clears the expected date of return.
C25_LeaveAlternates ==
    \A i \in Events :
        /\ IsLeave(i) =>
              /\ EventBefore(i).worker_status = "Active"
              /\ all_events[i].worker_status = "On Leave"
              /\ all_events[i].expected_date_of_return # NoDateText
        /\ IsReturn(i) =>
              /\ EventBefore(i).worker_status = "On Leave"
              /\ all_events[i].worker_status = "Active"
              /\ all_events[i].expected_date_of_return = NoDateText

IsCompChange(i) == all_events[i].action_reason_code = "DAT_COMP"
InBand(e) ==
    /\ GradeRow(e.grade_id).min <= e.base_pay
    /\ e.base_pay <= GradeRow(e.grade_id).max

\* C26: an annual compensation change leaves the employee's grade unchanged
\* and yields a base pay within [min, max] of that grade's band, and it is
\* applied only in January, February or March: a Compensation Change event
\* keeps the grade of the preceding event, and one that changes the base pay
\* is dated in the first quarter and pays within the band.
C26_AnnualCompChange ==
    \A i \in Events :
        IsCompChange(i) =>
            /\ all_events[i].grade_id = EventBefore(i).grade_id
            /\ all_events[i].base_pay # EventBefore(i).base_pay =>
                  /\ all_events[i].effective_date[2] \in {1, 2, 3}
                  /\ InBand(all_events[i])

\* a compensation change of March 2017 has cut a base pay above the band of
\* the grade back to the maximum of the band
C26_Witness ==
    \E i \in Events :
        /\ IsCompChange(i)
        /\ all_events[i].effective_date[1] = 2017
        /\ all_events[i].effective_date[2] = 3
        /\ EventBefore(i).base_pay > GradeRow(EventBefore(i).grade_id).max
        /\ all_events[i].base_pay = GradeRow(all_events[i].grade_id).max

\* a Compensation Change event of a month after March has been recorded: the
\* career action of that name, which leaves the pay as it was
C26_WitnessLater ==
    \E i \in Events :
        /\ IsCompChange(i)
        /\ all_events[i].effective_date[2] = 7
        /\ all_events[i].base_pay = EventBefore(i).base_pay

NonHireEvents == { i \in Events : all_events[i].transaction_type # "Hire" }

\* C27: the rescind pass selects only non-Hire events, each at most once, and
\* the number it selects is floor(rescind_rate * N), N being the number of
\* non-Hire events.
C27_RescindCount ==
    pc = "positions" =>
        /\ \E f \in [1..Len(rescinded_wids) -> NonHireEvents] :
              /\ \A k \in 1..Len(rescinded_wids) :
                    rescinded_wids[k].workday_id = all_events[f[k]].transaction_wid
              /\ \A k, l \in 1..Len(rescinded_wids) : k # l => f[k] # f[l]
        /\ Len(rescinded_wids) = (Cardinality(NonHireEvents) * RESCIND_RATE) \div 100

RECURSIVE Num(_)
\* int(text) of a string of decimal digits
Num(digits) ==
    IF digits = <<>> THEN 0
    ELSE Num(SubSeq(digits, 1, Len(digits) - 1)) * 10 + digits[Len(digits)]

\* datetime.fromisoformat of a YYYY-MM-DDTHH:MM:SS text
datetime_fromisoformat(text) ==
    << <<Num(text[1]), Num(text[3]), Num(text[5])>>,
       Num(text[7]), Num(text[9]), Num(text[11]) >>

\* a < b for two datetimes
DateTimeLT(a, b) ==
    \/ DateLT(a[1], b[1])
    \/ /\ a[1] = b[1]
       /\ (a[2] * 60 + a[3]) * 60 + a[4] < (b[2] * 60 + b[3]) * 60 + b[4]

\* C28: the rescind timestamp of every rescinded record is strictly later
\* than the entry timestamp of the event the record refers to.
C28_RescindedAfterEntry ==
    \A k \in 1..Len(rescinded_wids) :
        \A i \in NonHireEvents :
            rescinded_wids[k].workday_id = all_events[i].transaction_wid =>
                DateTimeLT(all_events[i].entry_datetime,
                           datetime_fromisoformat(rescinded_wids[k].rescinded_moment))

\* C29: deriving a new event from an employee's latest event never changes
\* an event already in all_events: through terminations, career actions,
\* compensation changes, hires and the rescind pass every event appended
\* earlier keeps exactly the field values it had when appended.
C29_AppendedEventsAreFrozen ==
    [][/\ Len(all_events') >= Len(all_events)
       /\ \A i \in 1..Len(all_events) : all_events'[i] = all_events[i]]_vars

\* the rescind pass has run over a history in which one employee has a Hire,
\* an event derived from the Hire and a Termination derived from that event
C29_Witness ==
    /\ pc = "positions"
    /\ rescinded_wids # <<>>
    /\ \E i, j, k \in Events :
          /\ i < j /\ j < k
          /\ all_events[i].employee_id = all_events[j].employee_id
          /\ all_events[j].employee_id = all_events[k].employee_id
          /\ IsHire(i)
          /\ all_events[j].action \in {"Change Job", "Data Change"}
          /\ IsTermination(k)
          /\ all_events[j].transaction_wid # all_events[i].transaction_wid

\* the month after month m of year y
MonthAfter(y, m) == IF m = 12 THEN <<y + 1, 1>> ELSE <<y, m + 1>>

\* C30: the driver terminates: from the founding month it processes every
\* calendar month through the month of the end date exactly once, in
\* strictly increasing order (January of the next year after December), and
\* then stops.
C30_DriverTerminates ==
    /\ <>[](/\ pc = "month"
            /\ <<year, month>> = MonthAfter(REFERENCE_END_DATE[1], REFERENCE_END_DATE[2]))
    /\ [][<<year', month'>> # <<year, month>> =>
             /\ pc = "hires"
             /\ <<year', month'>> = MonthAfter(year, month)]_vars
    /\ [][(pc = "month" /\ pc' # "month") =>
             /\ DateLE(<<year, month, 1>>, REFERENCE_END_DATE)
             /\ <<year', month'>> = <<year, month>>]_vars
    /\ [][(pc # "month" /\ pc' = "month") =>
             <<year', month'>> = MonthAfter(year, month)]_vars

\* the driver has processed the month of the end date, after a December and
\* with a roster, and stands at the month after it
C30_Witness ==
    /\ pc = "month"
    /\ <<year, month>> = MonthAfter(REFERENCE_END_DATE[1], REFERENCE_END_DATE[2])
    /\ year > REFERENCE_FOUNDED[1]
    /\ current_hc > 0
    /\ target_hc = interpolate_between(REFERENCE_GROWTH_ANCHORS,
                                       month_end(REFERENCE_END_DATE[1],
                                                 REFERENCE_END_DATE[2]))

\* whole calendar months from date a to date b
MonthsApart(a, b) == (b[1] - a[1]) * 12 + b[2] - a[2]

C32_NoEventAfterEndDate ==
    \A i \in Events : DateLE(all_events[i].effective_date, DATA_END_DATE)

\* C33: in every event, hires of US-company employees and events after a
\* Demotion included, the base pay lies within the event's own
\* [pay_range_min, pay_range_max], and those fields are the bounds of the
\* band of the event's grade.
C33_PayWithinOwnRange ==
    \A i \in Events :
        LET e == all_events[i]
        IN /\ e.pay_range_min <= e.base_pay
           /\ e.base_pay <= e.pay_range_max
           /\ e.pay_range_min = GradeRow(e.grade_id).min
           /\ e.pay_range_max = GradeRow(e.grade_id).max

\* an iteration of the hire loop is taken
HireStep == pc = "hires" /\ n_hires > 0 /\ employee_seq' = employee_seq + 1

\* the ids of the full pool of job profiles
JobProfileIds == { jp_list[k].Job_Profile_ID : k \in 1..Len(jp_list) }

\* C34: when no active employee has a strictly higher grade than a new hire
\* (empty roster, or a hire at the top grade) the hire still succeeds, with an
\* empty manager reference; when no job profile matches the grade of a hire
\* or of a promoted employee, a profile of the full pool is used; neither
\* case raises an error or skips the event.
C34_HireWithoutManagerOrProfile ==
    [][/\ HireStep =>
             /\ pc' = "hires"
             /\ Len(all_events') = Len(all_events) + 1
             /\ LET e == all_events'[Len(all_events')]
                IN /\ e.action = "Hire"
                   /\ (\A id \in DOMAIN active_employees :
                          GradeIndex(active_employees[id].grade_id)
                            <= GradeIndex(e.grade_id))
                        => e.manager_id = NoEmployee
                   /\ jp_by_grade(e.grade_id) = <<>> =>
                          e.job_profile_id \in JobProfileIds
       /\ (pc = "career" /\ Len(all_events') = Len(all_events) + 1) =>
             LET e == all_events'[Len(all_events')]
             IN (/\ e.action_reason_code = "CHG_PROMO"
                 /\ jp_by_grade(e.grade_id) = <<>>)
                  => /\ pc' = "career"
                     /\ e.job_profile_id \in JobProfileIds]_vars

\* a hire at the top grade was made into a roster that is not empty: it has no
\* manager, and its job profile is one of another grade
C34_Witness ==
    \E i \in Events :
        /\ i > 1
        /\ IsHire(i)
        /\ all_events[i].grade_id = GRADES[Len(GRADES)].id
        /\ all_events[i].manager_id = NoEmployee
        /\ jp_by_grade(all_events[i].grade_id) = <<>>
        /\ all_events[i].job_profile_id \in JobProfileIds
        /\ all_events[1].employee_id \in DOMAIN active_employees

\* an employee was promoted into a grade no job profile has
C34_WitnessPromotion ==
    \E i \in Events :
        /\ all_events[i].action_reason_code = "CHG_PROMO"
        /\ all_events[i].grade_id # EventBefore(i).grade_id
        /\ jp_by_grade(all_events[i].grade_id) = <<>>

\* the "country" of a location of config.py
LocationCountry(loc) == IF loc \in Range(LOCATIONS_CA) THEN "CA" ELSE "US"

\* C35: in every event, after any sequence of Hire, Transfer and Location
\* Change actions, the event's location belongs to the country of the
\* event's company.
C35_LocationInCompanyCountry ==
    \A i \in Events :
        /\ all_events[i].location_id \in Range(ALL_LOCATIONS)
        /\ LocationCountry(all_events[i].location_id)
             = COMPANY_COUNTRY(all_events[i].company_id)

\* a Transfer has moved an employee of a Canadian company to a US company
C35_Witness ==
    \E i \in Events :
        /\ all_events[i].action_reason_code = "CHG_XFER"
        /\ COMPANY_COUNTRY(EventBefore(i).company_id) = "CA"
        /\ COMPANY_COUNTRY(all_events[i].company_id) = "US"
        /\ LocationCountry(all_events[i].location_id) = "US"

\* a Location Change has given an employee another location
C35_WitnessLocationChange ==
    \E i \in Events :
        /\ all_events[i].action_reason_code = "DAT_LOC"
        /\ all_events[i].location_id # EventBefore(i).location_id

\* the index in the department rows of the row with the given id, 0 if none
DepartmentIndex(dept_id) ==
    LET hits == { k \in 1..Len(ref.departments) :
                    ref.departments[k].Department_ID = dept_id }
    IN IF hits = {} THEN 0 ELSE CHOOSE k \in hits : \A l \in hits : k <= l

RECURSIVE ReachesRoot(_, _)
\* following Parent_Dept_ID from row k for at most n steps ends at a row
\* without parent
ReachesRoot(k, n) ==
    IF k = 0 THEN FALSE
    ELSE IF ref.departments[k].Parent_Dept_ID = NoId THEN TRUE
    ELSE IF n = 0 THEN FALSE
    ELSE ReachesRoot(DepartmentIndex(ref.departments[k].Parent_Dept_ID), n - 1)

\* C36: in the department tree every sub-department of level L (2, 3 or 4)
\* has a parent that exists when the sub-department is created and whose
\* level is L - 1; the tree is acyclic and every department reaches the
\* single root division by following parents.
C36_DepartmentLevels ==
    /\ \A k \in 1..Len(ref.departments) :
          LET row == ref.departments[k]
              p == DepartmentIndex(row.Parent_Dept_ID)
          IN /\ row.Department_Level \in 2..4 =>
                   /\ p # 0
                   /\ p < k
                   /\ ref.departments[p].Department_Level = row.Department_Level - 1
             /\ ReachesRoot(k, Len(ref.departments))
    /\ Cardinality({ k \in 1..Len(ref.departments) :
                       ref.departments[k].Parent_Dept_ID = NoId }) = 1

\* date.fromisoformat of a YYYY-MM-DD text
date_fromisoformat(text) == <<Num(text[1]), Num(text[3]), Num(text[5])>>

\* C37: for a Voluntary termination the resignation date precedes the
\* termination date by 14 to 30 days and is never earlier than the
\* employee's own hire date; for every other termination category and for
\* events that are no termination the resignation date is empty.
C37_ResignationDate ==
    \A i \in Events :
        IF IsTermination(i) /\ all_events[i].primary_termination_category = "Voluntary"
        THEN /\ all_events[i].resignation_date # NoDateText
             /\ LET resigned == date_fromisoformat(all_events[i].resignation_date)
                    days == Ordinal(all_events[i].effective_date) - Ordinal(resigned)
                IN /\ 14 <= days
                   /\ days <= 30
                   /\ DateLE(HireOf(all_events[i].employee_id).effective_date, resigned)
        ELSE all_events[i].resignation_date = NoDateText

\* C38: a compensation-change event (the annual change or the career action
\* Compensation Change) never carries a base pay lower than the base pay of
\* the employee's preceding event.
C38_CompChangeNeverLowersPay ==
    \A i \in Events :
        IsCompChange(i) => all_events[i].base_pay >= EventBefore(i).base_pay

\* C39: across all events of one employee the identity fields set at hire
\* (employee id, position id, worker workday id, hire date) never change,
\* whatever career actions are applied, and the worker workday id is the one
\* in the employee's profile.
C39_IdentityFieldsKept ==
    \A i \in Events :
        LET e == all_events[i]
            hire == HireOf(e.employee_id)
        IN /\ e.employee_id = hire.employee_id
           /\ e.position_id = hire.position_id
           /\ e.worker_workday_id = hire.worker_workday_id
           /\ e.hire_date = hire.hire_date
           /\ e.hire_date = isoformat(hire.effective_date)
           /\ \E k \in 1..Len(profiles) : profiles[k].employee_id = e.employee_id
           /\ \A k \in 1..Len(profiles) :
                 profiles[k].employee_id = e.employee_id =>
                     profiles[k].worker_workday_id = e.worker_workday_id

\* an employee has been transferred and then terminated, another has been
\* hired since
C39_Witness ==
    \E i, j \in Events :
        /\ i < j
        /\ all_events[i].employee_id = all_events[j].employee_id
        /\ all_events[i].action_reason_code = "CHG_XFER"
        /\ IsTermination(j)
        /\ all_events[j].sequence_number = 3
        /\ Len(profiles) >= 2


(***************************************************************************)
(* C40: in every event the display fields agree with the ids beside them:  *)
(* location_name is the name of the catalog location whose id is the       *)
(* event's location_id, and supervisory_organization equals the event's    *)
(* sup_org_id, also after a Transfer, a Location Change, a Lateral Move or *)
(* an Org Change.                                                           *)
(***************************************************************************)
C40_DisplayFieldsAgree ==
    \A i \in Events :
        /\ all_events[i].location_name = LocationName(all_events[i].location_id)
        /\ all_events[i].supervisory_organization = all_events[i].sup_org_id

====
